---- MODULE Spec2Model ----
(***************************************************************************)
(* Voice-replacement audio alignment pipeline of FamFlix                    *)
(* (src/server/routes/videoProjects.ts).                                    *)
(*                                                                          *)
(* Times are integer milliseconds.  Word indices are 0-based as in the      *)
(* source; TLA+ sequences are 1-based, so word i of the source is w[i+1].   *)
(***************************************************************************)
EXTENDS Integers, Sequences, FiniteSets, TLC

VARIABLES
    awTranscript,   \* alignWordsWithCoverage: argument transcriptWords
    awTts,          \* alignWordsWithCoverage: argument ttsWords (the words only)
    awResult,       \* alignWordsWithCoverage: returned alignment
    awPc,           \* "call" before the call, "done" after it
    job,            \* job id -> state of one runElevenLabsVoiceReplacement call
    fs,             \* the temp directory: path -> duration (ms) of the file there
    now,            \* Date.now()
    pendingClose,   \* concat list files whose unlink waits for a 'close' event
    pipeline,       \* one runVoiceReplacementPipeline call: process, timer, promise
    stretch,        \* one call of timeStretchAudio or timeStretchAudioGently
    route           \* POST /api/video-projects/:id/process on one project

vars == <<awTranscript, awTts, awResult, awPc, job, fs, now, pendingClose,
          pipeline, stretch, route>>

\* the calls the other specifications are about
NoPipeline == [pc |-> "idle"]
NoStretch == [pc |-> "idle"]
NoRoute == [pc |-> "idle"]
otherCalls == <<pipeline, stretch, route>>

Min(a, b) == IF a <= b THEN a ELSE b
Max(a, b) == IF a >= b THEN a ELSE b

(***************************************************************************)
(* Bounds of the aligner's inputs.                                          *)
(***************************************************************************)
MaxTranscriptWords == 4
MaxTtsWords == 3

(***************************************************************************)
(* Words are sequences of one-character strings.                            *)
(***************************************************************************)
TranscriptVocab ==
    { <<"c", "a", "t">>,              \* cat
      <<"C", "a", "t", "s", ".">>,    \* Cats.   (normalizes to cats)
      <<"a", "t">>,                   \* at      (too short for a substring match)
      <<"-">> }                       \* -       (normalizes to the empty word)

TtsVocab ==
    { <<"c", "a", "t">>,
      <<"C", "a", "t", "s", ".">>,
      <<"a", "t">> }

SeqsUpTo(S, n) == UNION { [1..k -> S] : k \in 1..n }

UpperLetters == <<"A", "C", "H", "S", "T">>
LowerLetters == <<"a", "c", "h", "s", "t">>
OtherLetters == {"e", "l", "o", "r", "w", "y", "u", "d"}

\* String.prototype.toLowerCase on one character
LowerChar(c) ==
    IF \E k \in 1..Len(UpperLetters) : UpperLetters[k] = c
    THEN LowerLetters[CHOOSE k \in 1..Len(UpperLetters) : UpperLetters[k] = c]
    ELSE c

\* the character class [\w']
IsWordChar(c) ==
    \/ \E k \in 1..Len(UpperLetters) : c = UpperLetters[k] \/ c = LowerLetters[k]
    \/ c \in OtherLetters
    \/ c \in {"_", "'"}

\* normalizeWord: word.toLowerCase().replace(/[^\w']/g, '')
normalizeWord(word) ==
    SelectSeq([i \in 1..Len(word) |-> LowerChar(word[i])], IsWordChar)

\* String.prototype.includes
Includes(s, sub) ==
    \E k \in 0..(Len(s) - Len(sub)) : SubSeq(s, k + 1, k + Len(sub)) = sub

\* the match condition of the inner loop
WordsMatch(ttsNorm, transcriptNorm) ==
    \/ ttsNorm = transcriptNorm
    \/ /\ Len(ttsNorm) > 2
       /\ Len(transcriptNorm) > 2
       /\ (Includes(ttsNorm, transcriptNorm) \/ Includes(transcriptNorm, ttsNorm))

\* inner loop: the first j >= from whose word matches, or -1
RECURSIVE FirstMatchFrom(_, _, _)
FirstMatchFrom(transcriptNorm, ttsWords, j) ==
    IF j >= Len(ttsWords) THEN -1
    ELSE IF WordsMatch(normalizeWord(ttsWords[j + 1]), transcriptNorm) THEN j
    ELSE FirstMatchFrom(transcriptNorm, ttsWords, j + 1)

\* Step 1: all matches with strictly increasing indices
RECURSIVE FindMatches(_, _, _, _, _)
FindMatches(transcriptWords, ttsWords, i, lastTtsIdx, matches) ==
    IF i >= Len(transcriptWords) THEN matches
    ELSE LET transcriptNorm == normalizeWord(transcriptWords[i + 1])
             j == IF Len(transcriptNorm) = 0 THEN -1
                  ELSE FirstMatchFrom(transcriptNorm, ttsWords, lastTtsIdx + 1)
         IN  IF j = -1
             THEN FindMatches(transcriptWords, ttsWords, i + 1, lastTtsIdx, matches)
             ELSE FindMatches(transcriptWords, ttsWords, i + 1, j,
                              Append(matches, [transcriptIdx |-> i, ttsIdx |-> j]))

\* Step 2, no match at all: the uniform stride distribution
StrideAlignment_FloorStep(nTranscript, nTts) ==
    [k \in 1..nTranscript |->
        [transcriptIdx |-> k - 1,
         ttsIdx |-> Min((k - 1) * (nTts \div nTranscript), nTts - 1),
         interpolated |-> TRUE]]

StrideAlignment(nTranscript, nTts) ==
    LET step == Max(1, nTts \div nTranscript)
    IN  [k \in 1..nTranscript |->
            [transcriptIdx |-> k - 1,
             ttsIdx |-> Min((k - 1) * step, nTts - 1),
             interpolated |-> TRUE]]

\* Step 2: boundary anchors
AddAnchors(matches, nTranscript, nTts) ==
    LET m1 == IF matches[1].transcriptIdx > 0
              THEN <<[transcriptIdx |-> 0, ttsIdx |-> 0]>> \o matches
              ELSE matches
    IN  IF m1[Len(m1)].transcriptIdx < nTranscript - 1
        THEN Append(m1, [transcriptIdx |-> nTranscript - 1, ttsIdx |-> nTts - 1])
        ELSE m1

\* Math.round(num / den) for num >= 0, den > 0
RoundDiv(num, den) == (2 * num + den) \div (2 * den)

\* Math.min(Math.max(minNextTts, idx), maxTtsIdx)
ClampMonotonic_NoFloor(minNextTts, idx, maxTtsIdx) == Min(idx, maxTtsIdx)

ClampMonotonic(minNextTts, idx, maxTtsIdx) == Min(Max(minNextTts, idx), maxTtsIdx)

\* Step 3, inner loop over t in (start.transcriptIdx, end.transcriptIdx)
RECURSIVE Interpolate(_, _, _, _, _, _, _)
Interpolate(t, start, end, startTts, maxTtsIdx, minNextTts, acc) ==
    IF t >= end.transcriptIdx THEN [full |-> acc, minNextTts |-> minNextTts]
    ELSE IF minNextTts > maxTtsIdx
    THEN Interpolate(t + 1, start, end, startTts, maxTtsIdx, minNextTts,
             Append(acc, [transcriptIdx |-> t, ttsIdx |-> maxTtsIdx, interpolated |-> TRUE]))
    ELSE LET transcriptSpan == end.transcriptIdx - start.transcriptIdx
             clampedEndTts == Min(end.ttsIdx, maxTtsIdx)
             ttsSpan == Max(1, clampedEndTts - startTts)
             \* Math.round(startTts + progress * ttsSpan)
             rounded == RoundDiv(startTts * transcriptSpan
                                   + (t - start.transcriptIdx) * ttsSpan,
                                 transcriptSpan)
             interpolatedTts == ClampMonotonic(minNextTts, rounded, maxTtsIdx)
         IN  Interpolate(t + 1, start, end, startTts, maxTtsIdx,
                 Min(interpolatedTts + 1, maxTtsIdx + 1),
                 Append(acc, [transcriptIdx |-> t, ttsIdx |-> interpolatedTts,
                              interpolated |-> TRUE]))

\* Step 3, outer loop over consecutive pairs of matches
RECURSIVE InterpolatePairs(_, _, _, _, _)
InterpolatePairs(i, matches, maxTtsIdx, minNextTts, acc) ==
    IF i >= Len(matches) THEN acc
    ELSE LET start == matches[i]
             end == matches[i + 1]
             startTts == ClampMonotonic(minNextTts, start.ttsIdx, maxTtsIdx)
             acc1 == Append(acc, [transcriptIdx |-> start.transcriptIdx,
                                  ttsIdx |-> startTts, interpolated |-> FALSE])
             r == Interpolate(start.transcriptIdx + 1, start, end, startTts, maxTtsIdx,
                              Min(startTts + 1, maxTtsIdx), acc1)
         IN  InterpolatePairs(i + 1, matches, maxTtsIdx, r.minNextTts, r.full)

\* "Add final match (always map to last TTS word)"
AddFinalMatch_Dropped(fullAlignment, lastMatch, maxTtsIdx) == fullAlignment

AddFinalMatch(fullAlignment, lastMatch, maxTtsIdx) ==
    IF \/ Len(fullAlignment) = 0
       \/ fullAlignment[Len(fullAlignment)].transcriptIdx # lastMatch.transcriptIdx
    THEN Append(fullAlignment, [transcriptIdx |-> lastMatch.transcriptIdx,
                                ttsIdx |-> maxTtsIdx, interpolated |-> FALSE])
    ELSE fullAlignment

alignWordsWithCoverage(transcriptWords, ttsWords) ==
    IF Len(transcriptWords) = 0 \/ Len(ttsWords) = 0 THEN <<>>
    ELSE LET found == FindMatches(transcriptWords, ttsWords, 0, -1, <<>>)
         IN  IF Len(found) = 0
             THEN StrideAlignment(Len(transcriptWords), Len(ttsWords))
             ELSE LET matches == AddAnchors(found, Len(transcriptWords), Len(ttsWords))
                      maxTtsIdx == Len(ttsWords) - 1
                      full == InterpolatePairs(1, matches, maxTtsIdx, 0, <<>>)
                  IN  AddFinalMatch(full, matches[Len(matches)], maxTtsIdx)

(***************************************************************************)
(* Specification of the aligner: one call on every bounded input pair.      *)
(***************************************************************************)
InitAlign ==
    /\ awTranscript \in SeqsUpTo(TranscriptVocab, MaxTranscriptWords)
    /\ awTts \in SeqsUpTo(TtsVocab, MaxTtsWords)
    /\ awResult = <<>>
    /\ awPc = "call"
    /\ job = <<>>
    /\ fs = <<>>
    /\ now = 0
    /\ pendingClose = {}
    /\ pipeline = NoPipeline
    /\ stretch = NoStretch
    /\ route = NoRoute

CallAlign ==
    /\ awPc = "call"
    /\ awResult' = alignWordsWithCoverage(awTranscript, awTts)
    /\ awPc' = "done"
    /\ UNCHANGED <<awTranscript, awTts, job, fs, now, pendingClose, otherCalls>>

NextAlign == CallAlign

SpecAlign == InitAlign /\ [][NextAlign]_vars

\* C1: for non-empty inputs the alignment has exactly one entry per transcript
\* word, with transcriptIdx 0, 1, ..., len-1 in that order.
C1_FullCoverage ==
    awPc = "done" =>
        /\ Len(awResult) = Len(awTranscript)
        /\ \A k \in 1..Len(awResult) : awResult[k].transcriptIdx = k - 1

\* the case with matches, anchors at both ends and interpolated entries between
C1_Witness ==
    /\ awPc = "done"
    /\ Len(awTranscript) = 4
    /\ awResult[1].interpolated = FALSE
    /\ awResult[2].interpolated = TRUE
    /\ awResult[4].interpolated = FALSE
    /\ Len(awResult) = 4

\* C2: the ttsIdx values of the returned alignment are non-decreasing.
C2_Monotonic ==
    awPc = "done" =>
        \A k \in 1..(Len(awResult) - 1) : awResult[k].ttsIdx <= awResult[k + 1].ttsIdx

\* a real match in the middle whose own index lies below the running minimum
C2_Witness ==
    /\ awPc = "done"
    /\ Len(awResult) = 4
    /\ awTranscript[3] = <<"c", "a", "t">>
    /\ awTts[1] = <<"c", "a", "t">>
    /\ normalizeWord(awTranscript[1]) # <<"c", "a", "t">>
    /\ awResult[2].ttsIdx = 1
    /\ awResult[3].ttsIdx = 1
    /\ awResult[3].interpolated = FALSE

(***************************************************************************)
(* The voice-replacement job: runElevenLabsVoiceReplacement and the         *)
(* strategies it calls.  One action per awaited stage or loop iteration.    *)
(***************************************************************************)
aw == <<awTranscript, awTts, awResult, awPc>>

Abs(x) == IF x < 0 THEN -x ELSE x

\* ---- inputs ------------------------------------------------------------
wHello == <<"H", "e", "l", "l", "o">>
wThere == <<"t", "h", "e", "r", "e">>
wThereDot == <<"t", "h", "e", "r", "e", ".">>
wHow == <<"H", "o", "w">>
wAre == <<"a", "r", "e">>
wYou == <<"y", "o", "u">>
wToday == <<"t", "o", "d", "a", "y">>
wCatsDot == <<"C", "a", "t", "s", ".">>
wCat == <<"c", "a", "t">>
wAt == <<"a", "t">>

\* transcript segments {start, end, text}; text is kept as its words
SegsA ==
    << [start |-> 500, end |-> 3000, text |-> <<wHello, wThere>>],
       [start |-> 4000, end |-> 9500, text |-> <<wHow, wAre, wYou, wToday>>] >>

SegsQ ==
    << [start |-> 500, end |-> 3000, text |-> <<wHello, wThereDot>>],
       [start |-> 4000, end |-> 9500, text |-> <<wHow, wAre, wYou, wToday>>] >>

SegsP ==
    << [start |-> 0, end |-> 1000, text |-> <<wCatsDot>>],
       [start |-> 1120, end |-> 2000, text |-> <<wCat, wAt>>] >>

\* word timings {word, start, end} as the TTS provider returns them
TimingsA ==
    << [word |-> wHello, start |-> 0, end |-> 1100],
       [word |-> wThere, start |-> 1200, end |-> 2300],
       [word |-> wHow, start |-> 2450, end |-> 3500],
       [word |-> wAre, start |-> 3600, end |-> 4700],
       [word |-> wYou, start |-> 4800, end |-> 5800],
       [word |-> wToday, start |-> 5900, end |-> 7000] >>

TimingsQ == [TimingsA EXCEPT ![2].word = wThereDot]

TimingsP ==
    << [word |-> wCatsDot, start |-> 0, end |-> 950],
       [word |-> wCat, start |-> 1000, end |-> 1400],
       [word |-> wAt, start |-> 1450, end |-> 1800] >>

\* the calls of runElevenLabsVoiceReplacement the model explores
Scenarios ==
    { [videoDuration |-> 10000, segs |-> SegsA, timings |-> TimingsA],
      [videoDuration |-> 10000, segs |-> SegsQ, timings |-> TimingsQ],
      [videoDuration |-> 2100, segs |-> SegsP, timings |-> TimingsP],
      [videoDuration |-> 10000, segs |-> <<>>, timings |-> TimingsA],
      [videoDuration |-> 5000, segs |-> <<>>, timings |-> TimingsA],
      [videoDuration |-> 2100, segs |-> <<>>, timings |-> TimingsP] }

\* ---- what the external processes may do --------------------------------
\* generateSilence(D): the file is within 10 ms of D; both extremes
SilenceErr == {-10, 10}
\* hardTrimAudio(D): the file is within 20 ms of min(D, input); both extremes
TrimErr == {-20, 20}
\* a step that runs neither primitive leaves the error unused: one value of
\* the set stands for all of them
Idle(e, S) == \A x \in S : x <= e
\* a synthesized file against the end of its last word timing
TtsFileSlack == {0, -300}
\* duration of a synthesized file when the provider sent no alignment
UntimedTtsFileDur == {7000, 12000}

MediaPrimitives ==
    {"probe", "convert", "silence", "concat", "concatFades", "gentleStretch",
     "extractSegment", "hardTrim", "extractAudio", "mix", "mux", "copy"}

\* ---- files --------------------------------------------------------------
NoPath == <<"none", 0, 0, 0>>

\* path.join(tempDir, `${prefix}_${idx}_${Date.now()}.wav`); the last part is
\* the nanoid of the provider's file name, 0 for every other name
TempPath(prefix, idx, stamp) == <<prefix, idx, stamp, 0>>

WriteFile(f, p, d) == [q \in (DOMAIN f) \cup {p} |-> IF q = p THEN d ELSE f[q]]
Unlink(f, S) == [q \in (DOMAIN f) \ S |-> f[q]]
Range(seq) == { seq[k] : k \in 1..Len(seq) }

RECURSIVE WriteFiles(_, _)
\* writes every <<path, duration>> of the sequence ws
WriteFiles(f, ws) ==
    IF Len(ws) = 0 THEN f
    ELSE WriteFiles(WriteFile(f, ws[1][1], ws[1][2]), Tail(ws))

RECURSIVE SumDur(_, _)
\* concat: the output is as long as its inputs together
SumDur(f, clips) ==
    IF Len(clips) = 0 THEN 0
    ELSE (IF clips[1] \in DOMAIN f THEN f[clips[1]] ELSE 0) + SumDur(f, Tail(clips))

\* ---- pure helpers of the source ------------------------------------------
\* timeStretchAudioGently: the achieved duration for a measured input
GentleAchieved_Unclamped(currentDuration, targetDuration) ==
    IF Abs(currentDuration - targetDuration) < 100 THEN currentDuration
    ELSE targetDuration

GentleAchieved(currentDuration, targetDuration) ==
    IF Abs(currentDuration - targetDuration) < 100 THEN currentDuration
    ELSE IF currentDuration * 100 > 115 * targetDuration
         THEN (currentDuration * 100) \div 115
    ELSE IF currentDuration * 100 < 85 * targetDuration
         THEN (currentDuration * 100) \div 85
    ELSE targetDuration

\* /[.!?]$/.test(word)
IsSentenceEnd(word) == Len(word) > 0 /\ word[Len(word)] \in {".", "!", "?"}

\* provider: totalDuration is the end of the last word, 0 without word timings
TotalDurationOf(wordTimings) ==
    IF Len(wordTimings) > 0 THEN wordTimings[Len(wordTimings)].end ELSE 0

RECURSIVE SyntheticFrom(_, _, _, _, _, _)
SyntheticFrom(wordTimings, videoDuration, ttsDuration, i, segmentStart, segments) ==
    IF i >= Len(wordTimings) THEN segments
    ELSE IF IsSentenceEnd(wordTimings[i + 1].word) \/ i = Len(wordTimings) - 1
    THEN LET ttsStart == wordTimings[segmentStart + 1].start
             ttsEnd == wordTimings[i + 1].end
         IN  SyntheticFrom(wordTimings, videoDuration, ttsDuration, i + 1, i + 1,
                 Append(segments,
                     [start |-> (ttsStart * videoDuration) \div ttsDuration,
                      end |-> (ttsEnd * videoDuration) \div ttsDuration,
                      ttsStart |-> ttsStart, ttsEnd |-> ttsEnd,
                      wordIndices |-> [start |-> segmentStart, end |-> i]]))
    ELSE SyntheticFrom(wordTimings, videoDuration, ttsDuration, i + 1, segmentStart, segments)

createSyntheticSegments_OneSegment(wordTimings, videoDuration, ttsDuration) ==
    IF Len(wordTimings) = 0 THEN <<>>
    ELSE SyntheticFrom(wordTimings, videoDuration, ttsDuration,
                       Len(wordTimings) - 1, 0, <<>>)

createSyntheticSegments(wordTimings, videoDuration, ttsDuration) ==
    IF Len(wordTimings) = 0 THEN <<>>
    ELSE SyntheticFrom(wordTimings, videoDuration, ttsDuration, 0, 0, <<>>)

\* ---- the job record ------------------------------------------------------
NewJob(sc, preserveBackground, fbVoice) ==
    [pc |-> "start", lastNow |-> -1, result |-> "running",
     videoDuration |-> sc.videoDuration, segs |-> sc.segs, timings |-> sc.timings,
     preserveBackground |-> preserveBackground, fbVoice |-> fbVoice,
     \* process.env.ELEVENLABS_API_KEY is set (elevenlabs.ts line 18)
     apiKeyConfigured |-> TRUE,
     \* the project row: status and processing_error
     status |-> "processing", processingError |-> "none",
     wordTimings |-> <<>>, totalDuration |-> 0, audioPath |-> NoPath,
     ttsWavPath |-> NoPath, cleanupFiles |-> <<>>, finalAudioPath |-> NoPath,
     \* locals of the strategy in progress
     caller |-> "none", i |-> 0, currentTime |-> 0, audioClips |-> <<>>,
     alignAudio |-> NoPath, alignTtsDuration |-> 0, alignTimings |-> <<>>,
     segmentWordRanges |-> <<>>, rangesUsable |-> FALSE, maxDriftMs |-> 0, attempt |-> 0,
     \* history, read by the properties only
     tierLog |-> <<>>, failures |-> {}, faults |-> 0, created |-> {},
     speechOnset |-> -1, tierTrack |-> NoPath, fbNatural |-> TRUE,
     \* the duration alignAudioWithGapDistribution planned for each clip
     plannedClips |-> <<>>,
     verifierEntered |-> FALSE, enteredPath |-> NoPath, enteredDrift |-> 0,
     correctiveCalls |-> 0, verifierFailures |-> {},
     muxReached |-> FALSE, muxPath |-> NoPath, muxDuration |-> 0,
     spawned |-> FALSE, error |-> "none",
     \* what each completed iteration of alignWithIntraGaps computed
     intraSteps |-> <<>>]

\* a stage starts once the clock has moved past the job's previous stage:
\* every stage awaits at least one external process
Ready(j) == j \in DOMAIN job /\ now > job[j].lastNow

\* failures of external processes explored per job
MaxFaults == 1

Upd(j, r) ==
    /\ r.faults <= MaxFaults
    /\ job' = [job EXCEPT ![j] = [r EXCEPT !.lastNow = now]]

\* cleanupFiles.push(...) for each path of ps
Push(r, ps) == [r EXCEPT !.cleanupFiles = @ \o ps]

\* an exception leaving the try block: the finally block runs next
Throw(r, what) ==
    [r EXCEPT !.pc = "cleanup", !.result = "threw", !.failures = @ \cup {what},
              !.faults = @ + 1, !.error = what]

\* a failure that is caught, or reported by a return value
Failed(r, what) == [r EXCEPT !.failures = @ \cup {what}, !.faults = @ + 1]

\* an exception that follows from an earlier failure: the file to read is missing
ThrowMissing(r) ==
    [r EXCEPT !.pc = "cleanup", !.result = "threw", !.error = "missingFile"]

\* an exception that no external process caused: the provider has no API key
ThrowConfiguration(r) ==
    [r EXCEPT !.pc = "cleanup", !.result = "threw", !.failures = @ \cup {"config"},
              !.error = "config"]

\* the route after runElevenLabsVoiceReplacement has returned or thrown
\* (lines 2573-2656): the project row becomes completed, or failed with
\* processing_error = err.message
Report(r) ==
    IF r.result = "threw"
    THEN [r EXCEPT !.status = "failed", !.processingError = r.error]
    ELSE [r EXCEPT !.status = "completed"]

\* files written (history)
Created(r, ps) == [r EXCEPT !.created = @ \cup ps]

LogTier(r, tier) == [r EXCEPT !.tierLog = Append(@, [tier |-> tier, outcome |-> "running"])]
EndTier(r, outcome) == [r EXCEPT !.tierLog[Len(r.tierLog)].outcome = outcome]

\* Step 4 is reached only on the branch with transcript segments (lines 548-562)
AfterSegmentTiers(r) == IF r.preserveBackground THEN "mix" ELSE "verify"

\* ---- lines 428-461: probe, synthesis, conversion -------------------------
Start(j) ==
    /\ Ready(j)
    /\ job[j].pc = "start"
    /\ \E ok \in BOOLEAN :
         \* line 443 is outside the try block: no finally block runs
         Upd(j, IF ok THEN [job[j] EXCEPT !.pc = "synth", !.spawned = TRUE]
                ELSE Report([job[j] EXCEPT !.pc = "done", !.result = "threw",
                                           !.failures = @ \cup {"probe"}, !.faults = @ + 1,
                                           !.error = "probe", !.spawned = TRUE]))
    /\ UNCHANGED <<aw, otherCalls, fs, now, pendingClose>>

\* provider.synthesizeWithTimestamps
Synthesize(j) ==
    /\ Ready(j)
    /\ job[j].pc = "synth"
    /\ \E timed \in BOOLEAN, slack \in TtsFileSlack, untimed \in UntimedTtsFileDur,
          ok \in BOOLEAN :
         LET r == job[j]
             wordTimings == IF timed THEN r.timings ELSE <<>>
             fileDur == IF timed THEN TotalDurationOf(wordTimings) + slack ELSE untimed
             audioPath == <<"elevenlabs-ts", 0, now, j>>
         IN  IF ~r.apiKeyConfigured
             THEN \* elevenlabs.ts lines 174-176
                  /\ Upd(j, ThrowConfiguration(r))
                  /\ fs' = fs
             ELSE IF ok
             THEN /\ Upd(j, Created(Push([r EXCEPT !.pc = "convert",
                                              !.wordTimings = wordTimings,
                                              !.totalDuration = TotalDurationOf(wordTimings),
                                              !.audioPath = audioPath],
                                         <<audioPath>>), {audioPath}))
                  /\ fs' = WriteFile(fs, audioPath, fileDur)
             ELSE /\ Upd(j, Throw(r, "tts"))
                  /\ fs' = fs
    /\ UNCHANGED <<aw, otherCalls, now, pendingClose>>

ConvertToWav(j) ==
    /\ Ready(j)
    /\ job[j].pc = "convert"
    /\ \E ok \in BOOLEAN :
         LET r == job[j]
             ttsWavPath == TempPath("tts_wav", 0, now)
             r1 == Push([r EXCEPT !.ttsWavPath = ttsWavPath], <<ttsWavPath>>)
         IN  IF ok
             THEN /\ Upd(j, Created([r1 EXCEPT !.pc = "strategy"], {ttsWavPath}))
                  /\ fs' = WriteFile(fs, ttsWavPath, fs[r.audioPath])
             ELSE /\ Upd(j, Throw(r1, "convert"))
                  /\ fs' = fs
    /\ UNCHANGED <<aw, otherCalls, now, pendingClose>>

\* ---- lines 465-481, 563-572, 629-631: choice of the first strategy -------
\* lines 494-499: what the orchestrator does with the primary tier's result
PrimaryTierNext_AlwaysFallThrough(perSegmentPath) == "gapAdjust"

PrimaryTierNext(perSegmentPath) ==
    IF perSegmentPath # NoPath THEN "useTrack" ELSE "gapAdjust"

EnterPerSegment(r, caller) ==
    [r EXCEPT !.pc = "perSeg", !.caller = caller, !.i = 0, !.currentTime = 0,
              !.audioClips = <<>>, !.speechOnset = -1]

SelectStrategy(j) ==
    /\ Ready(j)
    /\ job[j].pc = "strategy"
    /\ LET r == job[j]
       IN  Upd(j,
             IF Len(r.segs) > 0
             THEN EnterPerSegment(LogTier(r, "PER_SEGMENT"), "primary")
             ELSE IF Len(r.wordTimings) > 0
             THEN IF Len(createSyntheticSegments(r.wordTimings, r.videoDuration,
                                                 r.totalDuration)) > 0
                  THEN [LogTier(r, "SYNTHETIC") EXCEPT !.pc = "synthetic", !.i = 0,
                            !.currentTime = 0, !.audioClips = <<>>]
                  ELSE [LogTier(r, "SIMPLE") EXCEPT !.pc = "simple"]
             ELSE [LogTier(r, "SIMPLE") EXCEPT !.pc = "simple"])
    /\ UNCHANGED <<aw, otherCalls, fs, now, pendingClose>>

\* ---- perSegmentSynthesisFallback (lines 1374-1494) -----------------------
\* words of the segments before segment i (0-based)
RECURSIVE WordsBefore(_, _)
WordsBefore(segs, i) == IF i = 0 THEN 0 ELSE Len(segs[i].text) + WordsBefore(segs, i - 1)

\* the span the words of segment i take in the whole-track synthesis
FbNaturalDuration(r, i) ==
    LET first == WordsBefore(r.segs, i) + 1
        last == first + Len(r.segs[i + 1].text) - 1
    IN  r.timings[last].end - r.timings[first].start

\* how long the per-segment request for a segment's text turns out: the span
\* the same words take in the whole-track synthesis, or 1.3 or 2 times the
\* segment's original window
FbVoices == {"asWholeTrack", "slow", "verySlow"}

FbClipDuration(r, i) ==
    LET seg == r.segs[i + 1]
    IN  CASE r.fbVoice = "asWholeTrack" -> FbNaturalDuration(r, i)
          [] r.fbVoice = "slow" -> ((seg.end - seg.start) * 13) \div 10
          [] OTHER -> (seg.end - seg.start) * 2

\* the value perSegmentSynthesisFallback returns reaches its caller:
\* lines 494-546 (primary tier) or lines 943-957 (inside gap adjustment)
PerSegmentReturn(r, path) ==
    IF r.caller = "primary"
    THEN IF PrimaryTierNext(path) = "useTrack"
         THEN [EndTier(r, "track") EXCEPT !.finalAudioPath = path, !.tierTrack = path,
                                          !.pc = AfterSegmentTiers(r)]
         ELSE [LogTier(EndTier(r, IF path # NoPath THEN "track" ELSE "noResult"),
                       "GAP_ADJUSTMENT") EXCEPT !.pc = "gapAdjust"]
    ELSE IF path # NoPath
         THEN [EndTier(r, "track") EXCEPT !.finalAudioPath = path, !.tierTrack = path,
                                          !.pc = AfterSegmentTiers(r)]
         ELSE [r EXCEPT !.pc = "simpleAlign"]

\* line 1458: currentTime += Math.min(ttsDur, segDuration)
FbAdvance_WholeWindow(ttsDur, segDuration) == segDuration

FbAdvance(ttsDur, segDuration) == Min(ttsDur, segDuration)

\* "durationUnparsed": ffprobe exits 0 with output that is no number and
\* getAudioDuration resolves 0 (line 1509)
PerSegOutcomes ==
    {"ok", "silenceThrows", "fetchFails", "convertThrows", "durationUnparsed",
     "stretchThrows"}

\* one iteration of the loop over transcriptSegments (lines 1388-1463)
PerSegmentIteration(j) ==
    /\ Ready(j)
    /\ job[j].pc = "perSeg"
    /\ job[j].i < Len(job[j].segs)
    /\ \E out \in PerSegOutcomes, e \in SilenceErr :
         LET r == job[j]
             i == r.i
             clipDur == FbClipDuration(r, i)
             ttsDur == IF out = "durationUnparsed" THEN 0 ELSE clipDur
             seg == r.segs[i + 1]
             segDuration == seg.end - seg.start
             needSilence == seg.start > r.currentTime + 20
             silencePath == TempPath("fb_gap", i, now)
             ttsPath == TempPath("fb_tts", i, now)
             wavPath == TempPath("fb_wav", i, now)
             stretchPath == TempPath("fb_stretch", i, now)
             needStretch == ttsDur * 10 > segDuration * 11
             achievedDuration == GentleAchieved(clipDur, segDuration)
             useStretch == needStretch /\ achievedDuration * 100 <= segDuration * 115
             \* after the silence before the segment
             w1 == IF needSilence
                   THEN <<<<silencePath, seg.start - r.currentTime + e>>>> ELSE <<>>
             r1 == [Push(r, IF needSilence THEN <<silencePath, ttsPath>> ELSE <<ttsPath>>)
                      EXCEPT !.audioClips = IF needSilence THEN Append(@, silencePath) ELSE @,
                             !.currentTime = IF needSilence THEN seg.start ELSE @,
                             !.i = i + 1]
             finalPath == IF useStretch THEN stretchPath ELSE wavPath
             w3 == w1 \o <<<<ttsPath, clipDur>>, <<wavPath, clipDur>>>>
                      \o (IF needStretch THEN <<<<stretchPath, achievedDuration>>>> ELSE <<>>)
             fs3 == WriteFiles(fs, w3)
         IN  /\ (needSilence \/ (Idle(e, SilenceErr) /\ out # "silenceThrows"))
             /\ (needStretch \/ out # "stretchThrows")
             /\ CASE out = "silenceThrows" ->
                       /\ Upd(j, PerSegmentReturn(Failed(Push(r, <<silencePath>>), "silence"),
                                                  NoPath))
                       /\ fs' = fs
                  [] out = "fetchFails" ->
                       /\ Upd(j, Created(Failed(r1, "fetch"), Range([k \in 1..Len(w1) |-> w1[k][1]])))
                       /\ fs' = WriteFiles(fs, w1)
                  [] out = "convertThrows" ->
                       /\ Upd(j, Created(Failed(Push(r1, <<wavPath>>), "convert"),
                                         Range([k \in 1..Len(w1) |-> w1[k][1]]) \cup {ttsPath}))
                       /\ fs' = WriteFiles(fs, w1 \o <<<<ttsPath, clipDur>>>>)
                  [] out = "stretchThrows" ->
                       /\ Upd(j, Created(Failed(Push(r1, <<wavPath, stretchPath>>), "gentleStretch"),
                                         Range([k \in 1..Len(w1) |-> w1[k][1]]) \cup {ttsPath, wavPath}))
                       /\ fs' = WriteFiles(fs, w1 \o <<<<ttsPath, clipDur>>, <<wavPath, clipDur>>>>)
                  [] OTHER ->
                       /\ Upd(j, Created(
                              [Push(IF out = "durationUnparsed" THEN Failed(r1, "probe") ELSE r1,
                                    IF needStretch THEN <<wavPath, stretchPath>> ELSE <<wavPath>>)
                                 EXCEPT !.speechOnset = IF @ = -1 THEN SumDur(fs3, r1.audioClips) ELSE @,
                                        !.audioClips = Append(@, finalPath),
                                        !.currentTime = @ + FbAdvance(ttsDur, segDuration),
                                        !.fbNatural = @ /\ clipDur = FbNaturalDuration(r, i)],
                              Range([k \in 1..Len(w3) |-> w3[k][1]])))
                       /\ fs' = fs3
    /\ UNCHANGED <<aw, otherCalls, now, pendingClose>>

\* what running concatenateAudioFilesWithFades may end in: the filter graph
\* works; the probe of an input fails, 1.0 s stands in for its duration
\* (lines 1648-1654) and the filter graph works; the filter graph fails and
\* plain concatenation works; either fails with an exit code; or the plain
\* concatenation cannot be spawned
FadeOutcomes == {"ok", "probeDefault", "fallbackOk", "exit", "fallbackSpawnError"}

\* the failure a completed concatenateAudioFilesWithFades has absorbed
FadeAbsorbed(r, out) ==
    CASE out = "probeDefault" -> Failed(r, "probe")
      [] out = "fallbackOk" -> Failed(r, "concatFades")
      [] OTHER -> r

ConcatListPath(stamp) == <<"concat_list", 0, stamp, 0>>

FinishOutcomes == {"silenceThrows"} \cup FadeOutcomes

\* after the loop (lines 1465-1493)
PerSegmentFinish(j) ==
    /\ Ready(j)
    /\ job[j].pc = "perSeg"
    /\ job[j].i = Len(job[j].segs)
    /\ \E out \in FinishOutcomes, e \in SilenceErr :
         LET r == job[j]
             needTrail == r.videoDuration > r.currentTime + 20
             trailPath == TempPath("fb_trail", 0, now)
             alignedPath == TempPath("fb_aligned", 0, now)
             clips == IF needTrail THEN Append(r.audioClips, trailPath) ELSE r.audioClips
             fs1 == IF needTrail
                    THEN WriteFile(fs, trailPath, r.videoDuration - r.currentTime + e) ELSE fs
             r1 == Created(Push(r, IF needTrail THEN <<trailPath>> ELSE <<>>),
                           IF needTrail THEN {trailPath} ELSE {})
             r2 == Push(r1, <<alignedPath>>)
         IN  /\ (needTrail \/ (Idle(e, SilenceErr) /\ out # "silenceThrows"))
             /\ (Len(clips) > 1 \/ out \in {"silenceThrows", "ok"})
             /\ IF out = "silenceThrows"
                THEN /\ Upd(j, PerSegmentReturn(Failed(Push(r, <<trailPath>>), "silence"), NoPath))
                     /\ fs' = fs
                     /\ pendingClose' = pendingClose
                ELSE IF Len(clips) = 0
                THEN /\ Upd(j, PerSegmentReturn(r1, NoPath))
                     /\ fs' = fs1
                     /\ pendingClose' = pendingClose
                ELSE IF out \in {"ok", "probeDefault", "fallbackOk"}
                THEN /\ Upd(j, PerSegmentReturn(
                              Created(FadeAbsorbed(r2, out), {alignedPath}), alignedPath))
                     /\ fs' = WriteFile(fs1, alignedPath, SumDur(fs1, clips))
                     /\ pendingClose' = pendingClose
                ELSE IF out = "exit"
                THEN /\ Upd(j, PerSegmentReturn(Failed(r2, "concat"), NoPath))
                     /\ fs' = fs1
                     /\ pendingClose' = pendingClose
                ELSE /\ Upd(j, PerSegmentReturn(
                              Created(Failed(r2, "concat"), {ConcatListPath(now)}), NoPath))
                     /\ fs' = WriteFile(fs1, ConcatListPath(now), 0)
                     /\ pendingClose' = pendingClose \cup {ConcatListPath(now)}
    /\ UNCHANGED <<aw, otherCalls, now>>

\* ---- lines 604-648: duration matching without segments --------------------
\* which branch of lines 605-627 (word timings, no synthetic segment) or of
\* lines 632-647 (no word timings) is taken
SimplePlan(r) ==
    IF Len(r.wordTimings) > 0
    THEN IF r.totalDuration * 10 < r.videoDuration * 9 THEN "stretch"
         ELSE IF r.totalDuration > r.videoDuration + 100 THEN "stretchTrim"
         ELSE "raw"
    ELSE IF r.totalDuration < r.videoDuration THEN "pad"
         ELSE IF r.totalDuration > r.videoDuration + 500 THEN "stretch"
         ELSE "raw"

ConcatOutcomes == {"ok", "concatExit", "concatSpawnError"}

SimpleOutcomes == {"silenceThrows", "stretchThrows", "trimFails"} \cup ConcatOutcomes

SimpleDurationMatch(j) ==
    /\ Ready(j)
    /\ job[j].pc = "simple"
    /\ \E out \in SimpleOutcomes, e \in SilenceErr \cup TrimErr :
         LET r == job[j]
             plan == SimplePlan(r)
             paddedPath == TempPath("padded", 0, now)
             silencePath == TempPath("silence_end", 0, now)
             stretchedPath == TempPath("stretched_fit", 0, now)
             trimmedPath == TempPath("trimmed", 0, now)
             ttsDur == fs[r.ttsWavPath]
             silenceDur == r.videoDuration - r.totalDuration + e
             stretchedDur == GentleAchieved(ttsDur, r.videoDuration)
             needTrim == plan = "stretchTrim" /\ stretchedDur > r.videoDuration + 100
             done(rr, path) == [EndTier(rr, "track") EXCEPT !.finalAudioPath = path,
                                   !.tierTrack = path, !.pc = "verify"]
         IN  /\ CASE plan = "pad" -> out \in {"silenceThrows"} \cup ConcatOutcomes /\ e \in SilenceErr
                  [] plan = "stretch" -> out \in {"ok", "stretchThrows"} /\ Idle(e, SilenceErr \cup TrimErr)
                  [] plan = "stretchTrim" ->
                        /\ out \in {"ok", "stretchThrows"} \cup (IF needTrim THEN {"trimFails"} ELSE {})
                        /\ IF needTrim /\ out = "ok" THEN e \in TrimErr ELSE Idle(e, SilenceErr \cup TrimErr)
                  [] OTHER -> out = "ok" /\ Idle(e, SilenceErr \cup TrimErr)
             /\ CASE plan = "pad" /\ out = "silenceThrows" ->
                       /\ Upd(j, Throw(Push(r, <<paddedPath, silencePath>>), "silence"))
                       /\ fs' = fs
                       /\ pendingClose' = pendingClose
                  [] plan = "pad" /\ out = "concatExit" ->
                       /\ Upd(j, Created(Throw(Push(r, <<paddedPath, silencePath>>), "concat"),
                                         {silencePath}))
                       /\ fs' = WriteFile(fs, silencePath, silenceDur)
                       /\ pendingClose' = pendingClose
                  [] plan = "pad" /\ out = "concatSpawnError" ->
                       /\ Upd(j, Created(Throw(Push(r, <<paddedPath, silencePath>>), "concat"),
                                         {silencePath, ConcatListPath(now)}))
                       /\ fs' = WriteFiles(fs, <<<<silencePath, silenceDur>>,
                                                 <<ConcatListPath(now), 0>>>>)
                       /\ pendingClose' = pendingClose \cup {ConcatListPath(now)}
                  [] plan = "pad" /\ out = "ok" ->
                       /\ Upd(j, Created(done(Push(r, <<paddedPath, silencePath>>), paddedPath),
                                         {silencePath, paddedPath}))
                       /\ fs' = WriteFiles(fs, <<<<silencePath, silenceDur>>,
                                                 <<paddedPath, ttsDur + silenceDur>>>>)
                       /\ pendingClose' = pendingClose
                  [] plan \in {"stretch", "stretchTrim"} /\ out = "stretchThrows" ->
                       /\ Upd(j, Throw(Push(r, <<stretchedPath>>), "gentleStretch"))
                       /\ fs' = fs
                       /\ pendingClose' = pendingClose
                  [] plan \in {"stretch", "stretchTrim"} /\ out = "ok" /\ ~needTrim ->
                       /\ Upd(j, Created(done(Push(r, <<stretchedPath>>), stretchedPath),
                                         {stretchedPath}))
                       /\ fs' = WriteFile(fs, stretchedPath, stretchedDur)
                       /\ pendingClose' = pendingClose
                  [] plan = "stretchTrim" /\ out = "ok" /\ needTrim ->
                       /\ Upd(j, Created(done(Push(r, <<stretchedPath, trimmedPath>>), trimmedPath),
                                         {stretchedPath, trimmedPath}))
                       /\ fs' = WriteFiles(fs, <<<<stretchedPath, stretchedDur>>,
                                 <<trimmedPath, Min(r.videoDuration, stretchedDur) + e>>>>)
                       /\ pendingClose' = pendingClose
                  [] plan = "stretchTrim" /\ out = "trimFails" ->
                       \* the boolean hardTrimAudio returns is not looked at
                       /\ Upd(j, Created(Failed(done(Push(r, <<stretchedPath, trimmedPath>>),
                                                     trimmedPath), "hardTrim"),
                                         {stretchedPath}))
                       /\ fs' = WriteFile(fs, stretchedPath, stretchedDur)
                       /\ pendingClose' = pendingClose
                  [] OTHER ->
                       /\ Upd(j, done(r, r.ttsWavPath))
                       /\ fs' = fs
                       /\ pendingClose' = pendingClose
    /\ UNCHANGED <<aw, otherCalls, now>>

\* ---- lines 548-562: background mix ----------------------------------------
MixBackground(j) ==
    /\ Ready(j)
    /\ job[j].pc = "mix"
    /\ \E out \in {"ok", "extractThrows", "mixThrows"} :
         LET r == job[j]
             originalAudioPath == TempPath("original", 0, now)
             mixedAudioPath == TempPath("mixed", 0, now)
             r1 == Push(r, <<originalAudioPath>>)
             r2 == Created(Push(r1, <<mixedAudioPath>>), {originalAudioPath})
             fs1 == WriteFile(fs, originalAudioPath, r.videoDuration)
             voiceDur == fs[r.finalAudioPath]
         IN  CASE out = "extractThrows" ->
                    /\ Upd(j, Throw(r1, "extractAudio"))
                    /\ fs' = fs
               [] r.finalAudioPath \notin DOMAIN fs ->
                    /\ Upd(j, ThrowMissing(r2))
                    /\ fs' = fs1
               [] out = "mixThrows" ->
                    /\ Upd(j, Throw(r2, "mix"))
                    /\ fs' = fs1
               [] OTHER ->
                    \* amix=duration=longest
                    /\ Upd(j, Created([r2 EXCEPT !.finalAudioPath = mixedAudioPath,
                                                 !.pc = "verify"], {mixedAudioPath}))
                    /\ fs' = WriteFile(fs1, mixedAudioPath, Max(r.videoDuration, voiceDur))
    /\ UNCHANGED <<aw, otherCalls, now, pendingClose>>

\* ---- lines 651-699: final verification loop and mux -----------------------
FINAL_TOLERANCE_MS == 100
MAX_CORRECTION_ATTEMPTS == 3

WithinTolerance_Exact(driftMs) == driftMs = 0

\* Math.abs(driftMs) <= FINAL_TOLERANCE_MS
WithinTolerance(driftMs) == Abs(driftMs) <= FINAL_TOLERANCE_MS

\* line 673: finalAudioPath = correctedPath, whatever hardTrimAudio returned
TrimmedFinalPath(finalAudioPath, correctedPath, trimmed) == correctedPath

\* line 677: const paddingNeeded = videoDuration - measuredDuration
PaddingNeeded_Half(videoDuration, measuredDuration) == (videoDuration - measuredDuration) \div 2

PaddingNeeded(videoDuration, measuredDuration) == videoDuration - measuredDuration

VerifyOutcomes == {"probeFails", "trimFails", "silenceThrows"} \cup ConcatOutcomes

\* one iteration of the loop of lines 655-687
VerifyAttempt(j) ==
    /\ Ready(j)
    /\ job[j].pc = "verify"
    /\ \E out \in VerifyOutcomes, e \in SilenceErr \cup TrimErr :
         LET r0 == job[j]
             r == IF r0.attempt = 0
                  THEN [r0 EXCEPT !.verifierEntered = TRUE, !.enteredPath = r0.finalAudioPath,
                           !.enteredDrift = IF r0.finalAudioPath \in DOMAIN fs
                                            THEN fs[r0.finalAudioPath] - r0.videoDuration
                                            ELSE 0]
                  ELSE r0
             missing == r.finalAudioPath \notin DOMAIN fs
             measuredDuration == IF missing THEN 0 ELSE fs[r.finalAudioPath]
             driftMs == measuredDuration - r.videoDuration
             tooLong == measuredDuration > r.videoDuration
             correctedPath == TempPath("final_trim", r.attempt, now)
             paddedPath == TempPath("final_pad", r.attempt, now)
             paddingSilence == TempPath("final_pad_silence", r.attempt, now)
             paddingNeeded == PaddingNeeded(r.videoDuration, measuredDuration)
             next(rr) == [rr EXCEPT !.attempt = @ + 1, !.correctiveCalls = @ + 1,
                             !.pc = IF r.attempt + 1 < MAX_CORRECTION_ATTEMPTS
                                    THEN "verify" ELSE "finalCheck"]
             vfail(rr, what) == [rr EXCEPT !.verifierFailures = @ \cup {what}]
         IN  /\ IF missing \/ out = "probeFails" \/ WithinTolerance(driftMs) THEN Idle(e, SilenceErr \cup TrimErr)
                ELSE IF tooLong
                THEN out \in {"ok", "trimFails"} /\ (IF out = "ok" THEN e \in TrimErr ELSE Idle(e, SilenceErr \cup TrimErr))
                ELSE out \in {"silenceThrows"} \cup ConcatOutcomes /\ e \in SilenceErr
             /\ (missing => out = "ok")
             /\ (~missing /\ WithinTolerance(driftMs) => out \in {"ok", "probeFails"})
             /\ CASE missing ->
                       /\ Upd(j, ThrowMissing(r))
                       /\ fs' = fs
                       /\ pendingClose' = pendingClose
                  [] out = "probeFails" ->
                       /\ Upd(j, Throw(vfail(r, "probe"), "probe"))
                       /\ fs' = fs
                       /\ pendingClose' = pendingClose
                  [] WithinTolerance(driftMs) ->
                       /\ Upd(j, [r EXCEPT !.pc = "finalCheck"])
                       /\ fs' = fs
                       /\ pendingClose' = pendingClose
                  [] tooLong /\ out = "ok" ->
                       /\ Upd(j, Created(next([Push(r, <<correctedPath>>) EXCEPT
                              !.finalAudioPath = TrimmedFinalPath(@, correctedPath, TRUE)]),
                              {correctedPath}))
                       /\ fs' = WriteFile(fs, correctedPath,
                                          Min(r.videoDuration, measuredDuration) + e)
                       /\ pendingClose' = pendingClose
                  [] tooLong /\ out = "trimFails" ->
                       /\ Upd(j, Failed(vfail(next([Push(r, <<correctedPath>>) EXCEPT
                              !.finalAudioPath = TrimmedFinalPath(@, correctedPath, FALSE)]),
                              "hardTrim"), "hardTrim"))
                       /\ fs' = fs
                       /\ pendingClose' = pendingClose
                  [] out = "silenceThrows" ->
                       /\ Upd(j, Throw(vfail([Push(r, <<paddedPath, paddingSilence>>)
                                                EXCEPT !.correctiveCalls = @ + 1],
                                             "silence"), "silence"))
                       /\ fs' = fs
                       /\ pendingClose' = pendingClose
                  [] out = "concatExit" ->
                       /\ Upd(j, Created(Throw(vfail([Push(r, <<paddedPath, paddingSilence>>)
                                                        EXCEPT !.correctiveCalls = @ + 2],
                                                     "concat"), "concat"),
                                         {paddingSilence}))
                       /\ fs' = WriteFile(fs, paddingSilence, paddingNeeded + e)
                       /\ pendingClose' = pendingClose
                  [] out = "concatSpawnError" ->
                       /\ Upd(j, Created(Throw(vfail([Push(r, <<paddedPath, paddingSilence>>)
                                                        EXCEPT !.correctiveCalls = @ + 2],
                                                     "concat"), "concat"),
                                         {paddingSilence, ConcatListPath(now)}))
                       /\ fs' = WriteFiles(fs, <<<<paddingSilence, paddingNeeded + e>>,
                                                 <<ConcatListPath(now), 0>>>>)
                       /\ pendingClose' = pendingClose \cup {ConcatListPath(now)}
                  [] OTHER ->
                       /\ Upd(j, Created(next([Push(r, <<paddedPath, paddingSilence>>) EXCEPT
                              !.finalAudioPath = paddedPath, !.correctiveCalls = @ + 1]),
                              {paddedPath, paddingSilence}))
                       /\ fs' = WriteFiles(fs, <<<<paddingSilence, paddingNeeded + e>>,
                                 <<paddedPath, measuredDuration + paddingNeeded + e>>>>)
                       /\ pendingClose' = pendingClose
    /\ UNCHANGED <<aw, otherCalls, now>>

\* lines 689-695: the measurement after the loop
FinalCheck(j) ==
    /\ Ready(j)
    /\ job[j].pc = "finalCheck"
    /\ \E ok \in BOOLEAN :
         LET r == job[j]
             missing == r.finalAudioPath \notin DOMAIN fs
         IN  /\ (missing => ok)
             /\ Upd(j, IF missing THEN ThrowMissing(r)
                       ELSE IF ~ok
                       THEN Throw([r EXCEPT !.verifierFailures = @ \cup {"probe"}], "probe")
                       ELSE [r EXCEPT !.pc = "mux", !.muxPath = r.finalAudioPath,
                                      !.muxDuration = fs[r.finalAudioPath]])
    /\ UNCHANGED <<aw, otherCalls, fs, now, pendingClose>>

\* lines 697-699: muxAudioWithVideo
Mux(j) ==
    /\ Ready(j)
    /\ job[j].pc = "mux"
    /\ \E ok \in BOOLEAN :
         Upd(j, IF ok THEN [job[j] EXCEPT !.pc = "cleanup", !.result = "returned",
                                          !.muxReached = TRUE]
                ELSE Throw([job[j] EXCEPT !.muxReached = TRUE], "mux"))
    /\ UNCHANGED <<aw, otherCalls, fs, now, pendingClose>>

\* lines 701-706: the finally block
Cleanup(j) ==
    /\ Ready(j)
    /\ job[j].pc = "cleanup"
    /\ Upd(j, Report([job[j] EXCEPT !.pc = "done"]))
    /\ fs' = Unlink(fs, Range(job[j].cleanupFiles))
    /\ UNCHANGED <<aw, otherCalls, now, pendingClose>>

\* concatenateAudioFiles, lines 289-303: after a spawn 'error' has rejected
\* the promise, the 'close' handler still unlinks the list file
CloseAfterSpawnError ==
    /\ \E p \in pendingClose :
         /\ fs' = Unlink(fs, {p})
         /\ pendingClose' = pendingClose \ {p}
    /\ UNCHANGED <<aw, otherCalls, job, now>>

\* a millisecond passes.  Every stage of a started job takes one millisecond;
\* a job that has not started yet may start at any later time
Tick ==
    /\ \E j \in DOMAIN job : job[j].pc # "done" /\ job[j].lastNow = now
    /\ \A j \in DOMAIN job : job[j].pc \notin {"start", "done"} => job[j].lastNow = now
    /\ now' = now + 1
    /\ UNCHANGED <<aw, otherCalls, job, fs, pendingClose>>

\* ---- lines 497-546 and 909-959: gap adjustment ------------------------------
\* findTTSPausePoints: 0-based indices of the sentence-ending words that are
\* not the last word
findTTSPausePoints(wordTimings) ==
    { k - 1 : k \in { n \in 1..(Len(wordTimings) - 1) : IsSentenceEnd(wordTimings[n].word) } }

\* findOriginalGaps: 0-based indices i with a gap of more than 100 ms between
\* segment i and segment i + 1
findOriginalGaps(segments) ==
    { k - 1 : k \in { n \in 1..(Len(segments) - 1) :
                        segments[n + 1].start - segments[n].end > 100 } }

\* wordTimings.map(wt => ({ ..., start: wt.start * stretchFactor, end: ... }))
ScaleTimings_Unscaled(wordTimings, achievedDuration, totalDuration) == wordTimings

ScaleTimings(wordTimings, achievedDuration, totalDuration) ==
    [k \in 1..Len(wordTimings) |->
        [word |-> wordTimings[k].word,
         start |-> (wordTimings[k].start * achievedDuration) \div totalDuration,
         end |-> (wordTimings[k].end * achievedDuration) \div totalDuration]]

\* line 912 and line 922: is the per-gap alignment tried
UsesIntraGaps(wordTimings, transcriptSegments) ==
    /\ Len(wordTimings) > 0
    /\ Len(transcriptSegments) > 1
    /\ findTTSPausePoints(wordTimings) # {}
    /\ findOriginalGaps(transcriptSegments) # {}

\* ---- alignWithIntraGaps (lines 1149-1370) ----------------------------------
RECURSIVE Flatten(_)
\* transcriptWords: the words of all segments in order
Flatten(segs) == IF Len(segs) = 0 THEN <<>> ELSE segs[1].text \o Flatten(Tail(segs))

\* alignments.find(a => a.transcriptIdx === idx): the first such entry, or none
FindAlign(alignments, idx) ==
    LET hits == { k \in 1..Len(alignments) : alignments[k].transcriptIdx = idx }
    IN  IF hits = {} THEN <<>>
        ELSE <<alignments[CHOOSE k \in hits : \A m \in hits : k <= m]>>

RECURSIVE MapRanges(_, _, _, _, _)
\* Step 3: segment boundaries mapped to ranges of synthesized words
MapRanges(segs, wordTimings, alignments, segIdx, ranges) ==
    IF segIdx >= Len(segs) THEN ranges
    ELSE IF Len(segs[segIdx + 1].text) = 0
    THEN MapRanges(segs, wordTimings, alignments, segIdx + 1, ranges)
    ELSE LET startWordIdx == WordsBefore(segs, segIdx)
             endWordIdx == startWordIdx + Len(segs[segIdx + 1].text) - 1
             sa == FindAlign(alignments, startWordIdx)
             ea == FindAlign(alignments, endWordIdx)
         IN  IF Len(sa) = 0 \/ Len(ea) = 0
             THEN MapRanges(segs, wordTimings, alignments, segIdx + 1, ranges)
             ELSE LET prevEnd == IF Len(ranges) > 0 THEN ranges[Len(ranges)].ttsEnd ELSE 0
                      ttsStart == IF sa[1].ttsIdx < ea[1].ttsIdx
                                  THEN wordTimings[sa[1].ttsIdx + 1].start
                                  ELSE Max(prevEnd, wordTimings[sa[1].ttsIdx + 1].start)
                  IN  MapRanges(segs, wordTimings, alignments, segIdx + 1,
                          Append(ranges,
                              [segIdx |-> segIdx, ttsStartIdx |-> sa[1].ttsIdx,
                               ttsEndIdx |-> ea[1].ttsIdx, ttsStart |-> ttsStart,
                               ttsEnd |-> wordTimings[ea[1].ttsIdx + 1].end]))

\* Steps 1-3 of alignWithIntraGaps
SegmentWordRanges(segs, wordTimings) ==
    LET ttsWords == [k \in 1..Len(wordTimings) |-> wordTimings[k].word]
    IN  MapRanges(segs, wordTimings, alignWordsWithCoverage(Flatten(segs), ttsWords),
                  0, <<>>)

\* lines 1188 and 1231: the alignment is usable
RangesUsable(segs, wordTimings) ==
    /\ Len(alignWordsWithCoverage(Flatten(segs),
                                  [k \in 1..Len(wordTimings) |-> wordTimings[k].word])) > 0
    /\ Len(SegmentWordRanges(segs, wordTimings)) * 10 >= Len(segs) * 8

\* the orchestrator's fallback branch up to the first await inside
\* alignAudioWithGapAdjustment
GapAdjustment(j) ==
    /\ Ready(j)
    /\ job[j].pc = "gapAdjust"
    /\ \E ok \in BOOLEAN :
         LET r == job[j]
             originalSpeechDuration == r.segs[Len(r.segs)].end - r.segs[1].start
             \* speedRatio >= 0.7 && speedRatio <= 1.4
             inRange == /\ r.totalDuration * 10 >= originalSpeechDuration * 7
                        /\ r.totalDuration * 10 <= originalSpeechDuration * 14
             \* targetRatio is 1.2 above the range and 0.85 below it
             targetDuration == IF r.totalDuration > originalSpeechDuration
                               THEN (r.totalDuration * 100) \div 120
                               ELSE (r.totalDuration * 100) \div 85
             stretchedPath == TempPath("stretched_whole", 0, now)
             achievedDuration == GentleAchieved(fs[r.ttsWavPath], targetDuration)
             scaledWordTimings == IF r.totalDuration > 0
                                  THEN ScaleTimings(r.wordTimings, achievedDuration,
                                                    r.totalDuration)
                                  ELSE r.wordTimings
             enter(rr, audio, dur, timings) ==
                 [rr EXCEPT !.alignAudio = audio, !.alignTtsDuration = dur,
                            !.alignTimings = timings, !.i = 0, !.currentTime = 0,
                            !.audioClips = <<>>, !.maxDriftMs = 0,
                            !.segmentWordRanges = IF UsesIntraGaps(timings, rr.segs)
                                                  THEN SegmentWordRanges(rr.segs, timings)
                                                  ELSE <<>>,
                            !.rangesUsable = /\ UsesIntraGaps(timings, rr.segs)
                                             /\ RangesUsable(rr.segs, timings),
                            !.pc = IF UsesIntraGaps(timings, rr.segs)
                                   THEN "intraGaps" ELSE "simpleAlign"]
         IN  /\ (inRange => ok)
             /\ IF inRange
                THEN /\ Upd(j, enter(r, r.ttsWavPath, r.totalDuration, r.wordTimings))
                     /\ fs' = fs
                ELSE IF ok
                THEN /\ Upd(j, Created(enter(Push(r, <<stretchedPath>>), stretchedPath,
                                             achievedDuration, scaledWordTimings),
                                       {stretchedPath}))
                     /\ fs' = WriteFile(fs, stretchedPath, achievedDuration)
                ELSE /\ Upd(j, Throw(Push(r, <<stretchedPath>>), "gentleStretch"))
                     /\ fs' = fs
    /\ UNCHANGED <<aw, otherCalls, now, pendingClose>>

RECURSIVE PathsThrough(_, _)
\* the paths pushed up to and including path p
PathsThrough(ps, p) ==
    IF Len(ps) = 0 THEN <<>>
    ELSE IF ps[1] = p THEN <<p>> ELSE <<ps[1]>> \o PathsThrough(Tail(ps), p)

RECURSIVE WritesBefore(_, _)
\* the files written before the step that writes p
WritesBefore(ws, p) ==
    IF Len(ws) = 0 \/ ws[1][1] = p THEN <<>>
    ELSE <<ws[1]>> \o WritesBefore(Tail(ws), p)

PathsOf(ws) == { ws[k][1] : k \in 1..Len(ws) }

\* alignWithIntraGaps returns to alignAudioWithGapAdjustment (lines 938-957)
IntraGapsReturn(r, path) ==
    IF path # NoPath
    THEN [EndTier(r, "track") EXCEPT !.finalAudioPath = path, !.tierTrack = path,
                                     !.pc = AfterSegmentTiers(r)]
    ELSE EnterPerSegment(r, "gapAdjust")

TOLERANCE_MS == 40

\* line 1337: if (maxDriftMs > TOLERANCE_MS * 5) return null
DriftRejected_Never(maxDriftMs) == FALSE

DriftRejected(maxDriftMs) == maxDriftMs > TOLERANCE_MS * 5

\* line 1323: if (gapNeeded > 0.01)
NeedsGapSilence_AnyPositive(gapNeeded) == gapNeeded > 0

NeedsGapSilence(gapNeeded) == gapNeeded > 10

\* lines 1266 and 1290: if (ratio > 1.02) { ... if (finalDuration > targetDuration + 0.05)
NeedsHardTrim_AnyOvershoot(over, duration, targetDuration) ==
    over /\ duration > targetDuration

NeedsHardTrim(over, duration, targetDuration) ==
    over /\ duration > targetDuration + 50

IntraOutcomes ==
    {"ok", "leadThrows", "extractThrows", "stretchThrows", "trimFails", "gapThrows"}

\* one iteration of the loop of Step 4 (lines 1243-1334)
IntraGapsIteration(j) ==
    /\ Ready(j)
    /\ job[j].pc = "intraGaps"
    /\ job[j].rangesUsable
    /\ job[j].i < Len(job[j].segmentWordRanges)
    /\ \E out \in IntraOutcomes, e \in SilenceErr, t \in TrimErr :
         LET r == job[j]
             i == r.i
             ranges == r.segmentWordRanges
             range == ranges[i + 1]
             origSeg == r.segs[range.segIdx + 1]
             ttsSpeechDuration == Max(100, range.ttsEnd - range.ttsStart)
             origSpeechDuration == origSeg.end - origSeg.start
             needLead == i = 0 /\ origSeg.start > 20
             leadSilence == TempPath("lead", 0, now)
             cumulative0 == IF needLead THEN origSeg.start ELSE r.currentTime
             segPath == TempPath("seg", i, now)
             audioDur == IF r.alignAudio \in DOMAIN fs THEN fs[r.alignAudio] ELSE 0
             segFileDur == Max(0, Min(ttsSpeechDuration, audioDur - range.ttsStart))
             timeAvailable == Max(200, origSeg.end - cumulative0)
             targetDuration == Min((timeAvailable * 95) \div 100, origSpeechDuration)
             over == ttsSpeechDuration * 100 > 102 * targetDuration
             compress == over /\ ttsSpeechDuration <= 3 * targetDuration
             expand == /\ ~over
                       /\ ttsSpeechDuration * 100 < 85 * targetDuration
                       /\ ttsSpeechDuration * 100 >= 40 * targetDuration
             stretchPath == TempPath(IF over THEN "comp" ELSE "exp", i, now)
             achievedDuration == GentleAchieved(segFileDur, targetDuration)
             useStretch == expand \/ (compress /\ achievedDuration < ttsSpeechDuration)
             duration1 == IF useStretch THEN achievedDuration ELSE ttsSpeechDuration
             path1 == IF useStretch THEN stretchPath ELSE segPath
             fileDur1 == IF useStretch THEN achievedDuration ELSE segFileDur
             needTrim == NeedsHardTrim(over, duration1, targetDuration)
             trimPath == TempPath("trim", i, now)
             trimmed == needTrim /\ out # "trimFails"
             finalSegPath == IF trimmed THEN trimPath ELSE path1
             finalDuration == IF needTrim THEN targetDuration ELSE duration1
             cumulative1 == cumulative0 + finalDuration
             hasNext == i < Len(ranges) - 1
             targetTime == IF hasNext THEN r.segs[ranges[i + 2].segIdx + 1].start ELSE 0
             gapNeeded == targetTime - cumulative1
             needGap == hasNext /\ NeedsGapSilence(gapNeeded)
             gapPath == TempPath("gap", i, now)
             cumulative2 == IF hasNext /\ (needGap \/ gapNeeded < -10)
                            THEN targetTime ELSE cumulative1
             pushes == (IF needLead THEN <<leadSilence>> ELSE <<>>) \o <<segPath>>
                          \o (IF compress \/ expand THEN <<stretchPath>> ELSE <<>>)
                          \o (IF needTrim THEN <<trimPath>> ELSE <<>>)
                          \o (IF needGap THEN <<gapPath>> ELSE <<>>)
             writes == (IF needLead THEN <<<<leadSilence, origSeg.start + e>>>> ELSE <<>>)
                          \o <<<<segPath, segFileDur>>>>
                          \o (IF compress \/ expand
                              THEN <<<<stretchPath, achievedDuration>>>> ELSE <<>>)
                          \o (IF trimmed
                              THEN <<<<trimPath, Max(0, Min(targetDuration, fileDur1) + t)>>>>
                              ELSE <<>>)
                          \o (IF needGap THEN <<<<gapPath, gapNeeded + e>>>> ELSE <<>>)
             clips == (IF needLead THEN <<leadSilence>> ELSE <<>>) \o <<finalSegPath>>
                         \o (IF needGap THEN <<gapPath>> ELSE <<>>)
             failedAt == CASE out = "leadThrows" -> leadSilence
                           [] out = "extractThrows" -> segPath
                           [] out = "stretchThrows" -> stretchPath
                           [] out = "gapThrows" -> gapPath
                           [] OTHER -> NoPath
             what == CASE out = "extractThrows" -> "extractSegment"
                       [] out = "stretchThrows" -> "gentleStretch"
                       [] OTHER -> "silence"
         IN  /\ (out = "leadThrows" => needLead)
             /\ (out = "stretchThrows" => compress \/ expand)
             /\ (out = "trimFails" => needTrim)
             /\ (out = "gapThrows" => needGap)
             /\ (needLead \/ needGap \/ Idle(e, SilenceErr))
             /\ (trimmed \/ Idle(t, TrimErr))
             /\ IF failedAt # NoPath
                THEN /\ Upd(j, IntraGapsReturn(
                            Created(Failed(Push(r, PathsThrough(pushes, failedAt)), what),
                                    PathsOf(WritesBefore(writes, failedAt))), NoPath))
                     /\ fs' = WriteFiles(fs, WritesBefore(writes, failedAt))
                ELSE /\ Upd(j, Created(
                            [(IF out = "trimFails" THEN Failed(Push(r, pushes), "hardTrim")
                              ELSE Push(r, pushes))
                               EXCEPT !.i = i + 1,
                                      !.audioClips = @ \o clips,
                                      !.currentTime = cumulative2,
                                      !.maxDriftMs = IF hasNext THEN Max(@, Abs(gapNeeded))
                                                     ELSE @,
                                      !.intraSteps = Append(@,
                                          [ttsStart |-> range.ttsStart,
                                           ttsEnd |-> range.ttsEnd,
                                           extracted |-> ttsSpeechDuration,
                                           origEnd |-> origSeg.end,
                                           available |-> origSeg.end - cumulative0,
                                           placedEnd |-> cumulative1,
                                           targetDuration |-> targetDuration,
                                           over |-> over, tooExtreme |-> over /\ ~compress,
                                           afterStretch |-> duration1,
                                           trimAttempted |-> needTrim,
                                           finalDuration |-> finalDuration,
                                           advance |-> cumulative1 - cumulative0,
                                           hasNext |-> hasNext, targetTime |-> targetTime,
                                           gapNeeded |-> gapNeeded,
                                           silence |-> IF needGap THEN <<gapNeeded>> ELSE <<>>,
                                           cumulativeActual |-> cumulative2])],
                            PathsOf(writes)))
                     /\ fs' = WriteFiles(fs, writes)
    /\ UNCHANGED <<aw, otherCalls, now, pendingClose>>

\* the early returns and the code after the loop (lines 1164-1234, 1336-1369)
IntraGapsFinish(j) ==
    /\ Ready(j)
    /\ job[j].pc = "intraGaps"
    /\ \/ ~job[j].rangesUsable
       \/ job[j].i = Len(job[j].segmentWordRanges)
    /\ \E out \in FinishOutcomes, e \in SilenceErr :
         LET r == job[j]
             rejected == \/ ~r.rangesUsable
                         \/ DriftRejected(r.maxDriftMs)
             needTrail == r.videoDuration - r.currentTime > 20
             trailPath == TempPath("trail", 0, now)
             alignedPath == TempPath("aligned", 0, now)
             clips == IF needTrail THEN Append(r.audioClips, trailPath) ELSE r.audioClips
             fs1 == IF needTrail
                    THEN WriteFile(fs, trailPath, r.videoDuration - r.currentTime + e) ELSE fs
             r1 == Created(Push(r, IF needTrail THEN <<trailPath>> ELSE <<>>),
                           IF needTrail THEN {trailPath} ELSE {})
             r2 == Push(r1, <<alignedPath>>)
         IN  /\ (rejected => out = "ok" /\ Idle(e, SilenceErr))
             /\ (needTrail \/ (Idle(e, SilenceErr) /\ out # "silenceThrows"))
             /\ (Len(clips) > 1 \/ out \in {"silenceThrows", "ok"})
             /\ IF rejected
                THEN /\ Upd(j, IntraGapsReturn(r, NoPath))
                     /\ fs' = fs
                     /\ pendingClose' = pendingClose
                ELSE IF out = "silenceThrows"
                THEN /\ Upd(j, IntraGapsReturn(Failed(Push(r, <<trailPath>>), "silence"), NoPath))
                     /\ fs' = fs
                     /\ pendingClose' = pendingClose
                ELSE IF out \in {"ok", "probeDefault", "fallbackOk"}
                THEN /\ Upd(j, IntraGapsReturn(
                              Created(FadeAbsorbed(r2, out), {alignedPath}), alignedPath))
                     /\ fs' = WriteFile(fs1, alignedPath, SumDur(fs1, clips))
                     /\ pendingClose' = pendingClose
                ELSE IF out = "exit"
                THEN /\ Upd(j, IntraGapsReturn(Failed(r2, "concat"), NoPath))
                     /\ fs' = fs1
                     /\ pendingClose' = pendingClose
                ELSE /\ Upd(j, IntraGapsReturn(
                              Created(Failed(r2, "concat"), {ConcatListPath(now)}), NoPath))
                     /\ fs' = WriteFile(fs1, ConcatListPath(now), 0)
                     /\ pendingClose' = pendingClose \cup {ConcatListPath(now)}
    /\ UNCHANGED <<aw, otherCalls, now>>

\* ---- lines 961-999: silence before and after the whole track ---------------
SimpleAlign(j) ==
    /\ Ready(j)
    /\ job[j].pc = "simpleAlign"
    /\ \E out \in FinishOutcomes, e \in SilenceErr :
         LET r == job[j]
             originalSpeechStart == r.segs[1].start
             needStart == originalSpeechStart > 50
             startSilencePath == TempPath("silence_start", 0, now)
             remainingTime == r.videoDuration - (originalSpeechStart + r.alignTtsDuration)
             needEnd == remainingTime > 50
             endSilencePath == TempPath("silence_end", 0, now)
             alignedPath == TempPath("aligned", 0, now)
             silences == (IF needStart THEN <<<<startSilencePath, originalSpeechStart + e>>>>
                          ELSE <<>>)
                         \o (IF needEnd THEN <<<<endSilencePath, remainingTime + e>>>>
                             ELSE <<>>)
             audioClips == (IF needStart THEN <<startSilencePath>> ELSE <<>>)
                              \o <<r.alignAudio>>
                              \o (IF needEnd THEN <<endSilencePath>> ELSE <<>>)
             fs1 == WriteFiles(fs, silences)
             r1 == Push(r, [k \in 1..Len(silences) |-> silences[k][1]])
             r2 == Created(Push(r1, <<alignedPath>>), PathsOf(silences))
             done(rr) == [EndTier(rr, "track") EXCEPT !.finalAudioPath = alignedPath,
                             !.tierTrack = alignedPath, !.pc = AfterSegmentTiers(rr)]
         IN  /\ (Len(silences) > 0 \/ (Idle(e, SilenceErr) /\ out = "ok"))
             /\ CASE out = "silenceThrows" ->
                       /\ Upd(j, Throw(Push(r, <<silences[1][1]>>), "silence"))
                       /\ fs' = fs
                       /\ pendingClose' = pendingClose
                  [] out \in {"ok", "probeDefault", "fallbackOk"} ->
                       /\ Upd(j, Created(done(FadeAbsorbed(r2, out)), {alignedPath}))
                       /\ fs' = WriteFile(fs1, alignedPath, SumDur(fs1, audioClips))
                       /\ pendingClose' = pendingClose
                  [] out = "exit" ->
                       /\ Upd(j, Throw(r2, "concat"))
                       /\ fs' = fs1
                       /\ pendingClose' = pendingClose
                  [] OTHER ->
                       /\ Upd(j, Created(Throw(r2, "concat"), {ConcatListPath(now)}))
                       /\ fs' = WriteFile(fs1, ConcatListPath(now), 0)
                       /\ pendingClose' = pendingClose \cup {ConcatListPath(now)}
    /\ UNCHANGED <<aw, otherCalls, now>>

\* ---- alignAudioWithGapDistribution (lines 777-892) --------------------------
DRIFT_TOLERANCE_MS == 100

\* const gapPerSlot = timeDelta > 0 ? timeDelta / numGaps : 0
GapPerSlot_WholeDelta(r) ==
    Max(0, r.videoDuration - r.wordTimings[Len(r.wordTimings)].end)

GapPerSlot(r) ==
    LET timeDelta == r.videoDuration - r.wordTimings[Len(r.wordTimings)].end
        numGaps == Len(createSyntheticSegments(r.wordTimings, r.videoDuration,
                                               r.totalDuration)) + 1
    IN  IF timeDelta > 0 THEN timeDelta \div numGaps ELSE 0

\* lines 583-586: what the orchestrator does with the synthetic tier's result
SyntheticReturn(r, path) ==
    IF path # NoPath
    THEN [EndTier(r, "track") EXCEPT !.finalAudioPath = path, !.tierTrack = path,
                                     !.pc = "verify"]
    ELSE [LogTier(EndTier(r, "noResult"), "SIMPLE") EXCEPT !.pc = "stretchFallback"]

\* lines 789-835: compression of an overlong track, or the leading gap
SyntheticStart(j) ==
    /\ Ready(j)
    /\ job[j].pc = "synthetic"
    /\ \E out \in {"ok", "stretchThrows", "probeThrows", "trimFails", "silenceThrows"},
          e \in SilenceErr \cup TrimErr :
         LET r == job[j]
             timeDelta == r.videoDuration - r.wordTimings[Len(r.wordTimings)].end
             tooLong == timeDelta < -50
             stretchedPath == TempPath("syn_stretched", 0, now)
             stretchedDuration == GentleAchieved(fs[r.ttsWavPath], r.videoDuration)
             needTrim == Abs(stretchedDuration - r.videoDuration) > DRIFT_TOLERANCE_MS
             trimmedPath == TempPath("syn_trimmed", 0, now)
             gapPerSlot == GapPerSlot(r)
             needLead == gapPerSlot > 10
             leadPath == TempPath("syn_lead", 0, now)
             r1 == Created(Push(r, <<stretchedPath>>), {stretchedPath})
             fs1 == WriteFile(fs, stretchedPath, stretchedDuration)
         IN  /\ IF tooLong
                THEN /\ out \in {"ok", "stretchThrows", "probeThrows"}
                               \cup (IF needTrim THEN {"trimFails"} ELSE {})
                     /\ IF needTrim /\ out = "ok" THEN e \in TrimErr ELSE Idle(e, SilenceErr \cup TrimErr)
                ELSE IF needLead THEN out \in {"ok", "silenceThrows"} /\ e \in SilenceErr
                ELSE out = "ok" /\ Idle(e, SilenceErr \cup TrimErr)
             /\ CASE out = "stretchThrows" ->
                       /\ Upd(j, Throw(Push(r, <<stretchedPath>>), "gentleStretch"))
                       /\ fs' = fs
                  [] out = "probeThrows" ->
                       /\ Upd(j, Throw(r1, "probe"))
                       /\ fs' = fs1
                  [] out = "trimFails" ->
                       \* the boolean hardTrimAudio returns is not looked at
                       /\ Upd(j, SyntheticReturn(Failed(Push(r1, <<trimmedPath>>), "hardTrim"),
                                                 trimmedPath))
                       /\ fs' = fs1
                  [] out = "silenceThrows" ->
                       /\ Upd(j, Throw(Push(r, <<leadPath>>), "silence"))
                       /\ fs' = fs
                  [] tooLong /\ needTrim ->
                       /\ Upd(j, SyntheticReturn(Created(Push(r1, <<trimmedPath>>),
                                                         {trimmedPath}), trimmedPath))
                       /\ fs' = WriteFile(fs1, trimmedPath,
                                          Min(r.videoDuration, stretchedDuration) + e)
                  [] tooLong ->
                       /\ Upd(j, SyntheticReturn(r1, stretchedPath))
                       /\ fs' = fs1
                  [] needLead ->
                       /\ Upd(j, Created([Push(r, <<leadPath>>) EXCEPT !.pc = "synSeg",
                                             !.i = 0, !.audioClips = <<leadPath>>,
                                             !.currentTime = gapPerSlot,
                                             !.plannedClips =
                                                 <<[kind |-> "lead", duration |-> gapPerSlot]>>],
                                          {leadPath}))
                       /\ fs' = WriteFile(fs, leadPath, gapPerSlot + e)
                  [] OTHER ->
                       /\ Upd(j, [r EXCEPT !.pc = "synSeg", !.i = 0, !.audioClips = <<>>,
                                           !.currentTime = 0])
                       /\ fs' = fs
    /\ UNCHANGED <<aw, otherCalls, now, pendingClose>>

\* one iteration of the loop over syntheticSegments (lines 838-857)
SyntheticIteration(j) ==
    /\ Ready(j)
    /\ job[j].pc = "synSeg"
    /\ job[j].i < Len(createSyntheticSegments(job[j].wordTimings, job[j].videoDuration,
                                              job[j].totalDuration))
    /\ \E out \in {"ok", "extractThrows", "silenceThrows"}, e \in SilenceErr :
         LET r == job[j]
             i == r.i
             syntheticSegments == createSyntheticSegments(r.wordTimings, r.videoDuration,
                                                          r.totalDuration)
             seg == syntheticSegments[i + 1]
             segDuration == seg.ttsEnd - seg.ttsStart
             segPath == TempPath("syn_seg", i, now)
             segFileDur == Max(0, Min(segDuration, fs[r.ttsWavPath] - seg.ttsStart))
             gapPerSlot == GapPerSlot(r)
             needGap == i < Len(syntheticSegments) - 1 /\ gapPerSlot > 10
             gapPath == TempPath("syn_gap", i, now)
             r1 == Push(r, <<segPath>>)
             r2 == Created(IF needGap THEN Push(r1, <<gapPath>>) ELSE r1, {segPath})
             fs1 == WriteFile(fs, segPath, segFileDur)
         IN  /\ (needGap \/ (Idle(e, SilenceErr) /\ out # "silenceThrows"))
             /\ CASE out = "extractThrows" ->
                       /\ Upd(j, Throw(r1, "extractSegment"))
                       /\ fs' = fs
                  [] out = "silenceThrows" ->
                       /\ Upd(j, Throw(r2, "silence"))
                       /\ fs' = fs1
                  [] OTHER ->
                       /\ Upd(j, Created(
                              [r2 EXCEPT !.i = i + 1,
                                         !.audioClips = @ \o (IF needGap THEN <<segPath, gapPath>>
                                                              ELSE <<segPath>>),
                                         !.currentTime = @ + segDuration
                                                           + (IF needGap THEN gapPerSlot ELSE 0),
                                         !.plannedClips = @ \o
                                             <<[kind |-> "seg", duration |-> segDuration]>> \o
                                             (IF needGap
                                              THEN <<[kind |-> "gap", duration |-> gapPerSlot]>>
                                              ELSE <<>>)],
                              IF needGap THEN {gapPath} ELSE {}))
                       /\ fs' = IF needGap THEN WriteFile(fs1, gapPath, gapPerSlot + e) ELSE fs1
    /\ UNCHANGED <<aw, otherCalls, now, pendingClose>>

\* trailing silence, concatenation and the drift check (lines 859-891)
SyntheticFinish(j) ==
    /\ Ready(j)
    /\ job[j].pc = "synSeg"
    /\ job[j].i = Len(createSyntheticSegments(job[j].wordTimings, job[j].videoDuration,
                                              job[j].totalDuration))
    /\ \E out \in FinishOutcomes \cup {"probeThrows"}, e \in SilenceErr :
         LET r == job[j]
             trailTime == r.videoDuration - r.currentTime
             needTrail == trailTime > 10
             trailPath == TempPath("syn_trail", 0, now)
             alignedPath == TempPath("syn_aligned", 0, now)
             clips == IF needTrail THEN Append(r.audioClips, trailPath) ELSE r.audioClips
             fs1 == IF needTrail THEN WriteFile(fs, trailPath, trailTime + e) ELSE fs
             r1 == Created(Push([r EXCEPT !.plannedClips =
                                       IF needTrail
                                       THEN Append(@, [kind |-> "trail", duration |-> trailTime])
                                       ELSE @],
                                IF needTrail THEN <<trailPath>> ELSE <<>>),
                           IF needTrail THEN {trailPath} ELSE {})
             r2 == Push(r1, <<alignedPath>>)
             finalDuration == SumDur(fs1, clips)
             r3(rr) == Created(rr, {alignedPath})
         IN  /\ (needTrail \/ (Idle(e, SilenceErr) /\ out # "silenceThrows"))
             /\ (Len(clips) > 1 \/ out \in {"silenceThrows", "ok", "probeThrows"})
             /\ CASE out = "silenceThrows" ->
                       /\ Upd(j, Throw(Push(r, <<trailPath>>), "silence"))
                       /\ fs' = fs
                       /\ pendingClose' = pendingClose
                  [] out = "exit" ->
                       /\ Upd(j, Throw(r2, "concat"))
                       /\ fs' = fs1
                       /\ pendingClose' = pendingClose
                  [] out = "fallbackSpawnError" ->
                       /\ Upd(j, Created(Throw(r2, "concat"), {ConcatListPath(now)}))
                       /\ fs' = WriteFile(fs1, ConcatListPath(now), 0)
                       /\ pendingClose' = pendingClose \cup {ConcatListPath(now)}
                  [] out = "probeThrows" ->
                       /\ Upd(j, Throw(r3(r2), "probe"))
                       /\ fs' = WriteFile(fs1, alignedPath, finalDuration)
                       /\ pendingClose' = pendingClose
                  [] OTHER ->
                       /\ Upd(j, SyntheticReturn(
                              r3(FadeAbsorbed(r2, out)),
                              IF Abs(finalDuration - r.videoDuration) > DRIFT_TOLERANCE_MS
                              THEN NoPath ELSE alignedPath))
                       /\ fs' = WriteFile(fs1, alignedPath, finalDuration)
                       /\ pendingClose' = pendingClose
    /\ UNCHANGED <<aw, otherCalls, now>>

\* ---- lines 586-602: time-stretch after a rejected synthetic alignment -------
FallbackTrack_AlwaysTrimmed(stretchedDur, videoDuration, stretchFallbackPath, trimFallbackPath) ==
    trimFallbackPath

\* lines 594-602: the path that becomes finalAudioPath
FallbackTrack(stretchedDur, videoDuration, stretchFallbackPath, trimFallbackPath) ==
    IF stretchedDur > videoDuration + 100 THEN trimFallbackPath ELSE stretchFallbackPath

StretchFallback(j) ==
    /\ Ready(j)
    /\ job[j].pc = "stretchFallback"
    /\ \E out \in {"ok", "stretchThrows", "probeThrows", "trimFails"}, e \in TrimErr :
         LET r == job[j]
             stretchFallbackPath == TempPath("stretch_fallback", 0, now)
             trimFallbackPath == TempPath("trim_fallback", 0, now)
             stretchedDur == GentleAchieved(fs[r.ttsWavPath], r.videoDuration)
             needTrim == stretchedDur > r.videoDuration + 100
             final == FallbackTrack(stretchedDur, r.videoDuration, stretchFallbackPath,
                                    trimFallbackPath)
             r1 == Created(Push(r, <<stretchFallbackPath>>), {stretchFallbackPath})
             r2 == IF needTrim THEN Push(r1, <<trimFallbackPath>>) ELSE r1
             fs1 == WriteFile(fs, stretchFallbackPath, stretchedDur)
             done(rr) == [EndTier(rr, "track") EXCEPT !.finalAudioPath = final,
                             !.tierTrack = final, !.pc = "verify"]
         IN  /\ (out = "trimFails" => needTrim)
             /\ ((needTrim /\ out = "ok") \/ Idle(e, TrimErr))
             /\ CASE out = "stretchThrows" ->
                       /\ Upd(j, Throw(Push(r, <<stretchFallbackPath>>), "gentleStretch"))
                       /\ fs' = fs
                  [] out = "probeThrows" ->
                       /\ Upd(j, Throw(r1, "probe"))
                       /\ fs' = fs1
                  [] out = "trimFails" ->
                       /\ Upd(j, done(Failed(r2, "hardTrim")))
                       /\ fs' = fs1
                  [] needTrim ->
                       /\ Upd(j, Created(done(r2), {trimFallbackPath}))
                       /\ fs' = WriteFile(fs1, trimFallbackPath,
                                          Min(r.videoDuration, stretchedDur) + e)
                  [] OTHER ->
                       /\ Upd(j, done(r2))
                       /\ fs' = fs1
    /\ UNCHANGED <<aw, otherCalls, now, pendingClose>>

(***************************************************************************)
(* Specification of one voice-replacement job.                              *)
(***************************************************************************)
Jobs == {1}

Init ==
    /\ awTranscript = <<>>
    /\ awTts = <<>>
    /\ awResult = <<>>
    /\ awPc = "done"
    /\ \E sc \in Scenarios, preserveBackground \in BOOLEAN, fbVoice \in FbVoices,
          key \in BOOLEAN :
         \* without segments neither the mix nor the per-segment synthesis is reached
         /\ (Len(sc.segs) = 0 => ~preserveBackground /\ fbVoice = "asWholeTrack")
         /\ job = [j \in Jobs |-> [NewJob(sc, preserveBackground, fbVoice)
                                     EXCEPT !.apiKeyConfigured = key]]
    /\ fs = <<>>
    /\ now = 0
    /\ pendingClose = {}
    /\ pipeline = NoPipeline
    /\ stretch = NoStretch
    /\ route = NoRoute

Next ==
    \/ \E j \in Jobs :
       \/ Start(j)
       \/ Synthesize(j)
       \/ ConvertToWav(j)
       \/ SelectStrategy(j)
       \/ PerSegmentIteration(j)
       \/ PerSegmentFinish(j)
       \/ GapAdjustment(j)
       \/ IntraGapsIteration(j)
       \/ IntraGapsFinish(j)
       \/ SimpleAlign(j)
       \/ MixBackground(j)
       \/ SyntheticStart(j)
       \/ SyntheticIteration(j)
       \/ SyntheticFinish(j)
       \/ StretchFallback(j)
       \/ SimpleDurationMatch(j)
       \/ VerifyAttempt(j)
       \/ FinalCheck(j)
       \/ Mux(j)
       \/ Cleanup(j)
    \/ CloseAfterSpawnError
    \/ Tick

Spec == Init /\ [][Next]_vars

(***************************************************************************)
(* Specification of two jobs running at once in the same process: both use  *)
(* process.cwd()/temp and the same clock.  The jobs have no transcript       *)
(* segments and meet no failing process.                                    *)
(***************************************************************************)
JobsConcurrent == {1, 2}

ConcurrentScenario == [videoDuration |-> 2100, segs |-> <<>>, timings |-> TimingsP]

InitConcurrent ==
    /\ awTranscript = <<>>
    /\ awTts = <<>>
    /\ awResult = <<>>
    /\ awPc = "done"
    /\ job = [j \in JobsConcurrent |->
                [NewJob(ConcurrentScenario, FALSE, "asWholeTrack") EXCEPT !.faults = MaxFaults]]
    /\ fs = <<>>
    /\ now = 0
    /\ pendingClose = {}
    /\ pipeline = NoPipeline
    /\ stretch = NoStretch
    /\ route = NoRoute

NextConcurrent ==
    \/ \E j \in JobsConcurrent :
       \/ Start(j)
       \/ Synthesize(j)
       \/ ConvertToWav(j)
       \/ SelectStrategy(j)
       \/ SyntheticStart(j)
       \/ SyntheticIteration(j)
       \/ SyntheticFinish(j)
       \/ StretchFallback(j)
       \/ SimpleDurationMatch(j)
       \/ VerifyAttempt(j)
       \/ FinalCheck(j)
       \/ Mux(j)
       \/ Cleanup(j)
    \/ Tick

SpecConcurrent == InitConcurrent /\ [][NextConcurrent]_vars

\* C3: a track handed to mux is within 100 ms of the video duration, whatever
\* tier produced it, given that hardTrim stays within 20 ms of min(D, input),
\* generateSilence within 10 ms of D and concatenation is additive
C3_MuxWithinTolerance ==
    \A j \in DOMAIN job :
        (job[j].pc = "mux" \/ job[j].muxReached)
            => Abs(job[j].muxDuration - job[j].videoDuration) <= FINAL_TOLERANCE_MS

\* a job is muxed whose track entered the verifier more than 800 ms short
C3_Witness ==
    \E j \in DOMAIN job :
        /\ job[j].muxReached
        /\ job[j].enteredDrift < -800
        /\ job[j].correctiveCalls > 0

TierRank(tier) ==
    CASE tier = "PER_SEGMENT" -> 1
      [] tier = "GAP_ADJUSTMENT" -> 2
      [] tier = "SYNTHETIC" -> 3
      [] OTHER -> 4

\* C4: the tiers the orchestrator runs are in the order per-segment, gap
\* adjustment, synthetic distribution, simple pad/stretch; the first one is the
\* earliest applicable one, a tier runs only after the one before it gave no
\* result, and the tier that returns a track is the last one run
C4_TierOrder ==
    \A j \in DOMAIN job :
        LET r == job[j]
            log == r.tierLog
        IN  /\ \A k \in 1..(Len(log) - 1) :
                  /\ TierRank(log[k].tier) < TierRank(log[k + 1].tier)
                  /\ log[k].outcome = "noResult"
            /\ Len(log) > 0 =>
                  log[1].tier = IF Len(r.segs) > 0 THEN "PER_SEGMENT"
                                ELSE IF Len(r.wordTimings) > 0 THEN "SYNTHETIC"
                                ELSE "SIMPLE"

\* per-segment synthesis gave no result and gap adjustment returned the track
C4_Witness ==
    \E j \in DOMAIN job :
        /\ Len(job[j].tierLog) = 2
        /\ job[j].tierLog[1] = [tier |-> "PER_SEGMENT", outcome |-> "noResult"]
        /\ job[j].tierLog[2] = [tier |-> "GAP_ADJUSTMENT", outcome |-> "track"]

\* C5: when no media primitive fails, the cascade hands an existing track to
\* the drift verifier, the last tier run being the one that returned it; a job
\* that is aborted before the verifier has seen a failure
C5_CascadeYieldsTrack ==
    \A j \in DOMAIN job :
        LET r == job[j]
        IN  /\ (r.pc = "verify" /\ r.attempt = 0 /\ r.failures \cap MediaPrimitives = {})
                  => /\ r.finalAudioPath \in DOMAIN fs
                     /\ r.tierLog[Len(r.tierLog)].outcome = "track"
            /\ (r.result = "threw" /\ ~r.verifierEntered) => r.failures # {}

\* the synthetic alignment was rejected for drift, nothing failed, and the
\* stretch fallback hands its track to the verifier
C5_Witness ==
    \E j \in DOMAIN job :
        /\ job[j].pc = "verify"
        /\ job[j].attempt = 0
        /\ job[j].failures = {}
        /\ Len(job[j].tierLog) = 2
        /\ job[j].tierLog[2] = [tier |-> "SIMPLE", outcome |-> "track"]
        /\ job[j].finalAudioPath \in DOMAIN fs

\* C6: once a track has entered the drift verifier, and nothing but a
\* corrective hard trim has failed, the job goes on to mux
C6_AlwaysProceedsToMux ==
    \A j \in DOMAIN job :
        ( /\ job[j].pc \in {"cleanup", "done"}
          /\ job[j].verifierEntered
          /\ job[j].enteredPath \in job[j].created
          /\ job[j].failures \subseteq {"hardTrim"}
          /\ job[j].verifierFailures \subseteq {"hardTrim"} )
            => job[j].muxReached

\* C7: a track that enters the verifier within 100 ms of the video duration
\* causes no corrective call and is the track handed to mux
C7_NoopWithinTolerance ==
    \A j \in DOMAIN job :
        LET r == job[j]
        IN  ( /\ r.verifierEntered
              /\ r.enteredPath \in r.created
              /\ Abs(r.enteredDrift) <= 100 )
                => /\ r.correctiveCalls = 0
                   /\ r.finalAudioPath = r.enteredPath
                   /\ (r.pc = "mux" \/ r.muxReached) => r.muxPath = r.enteredPath

\* a track 10 to 100 ms off is muxed as it entered
C7_Witness ==
    \E j \in DOMAIN job :
        /\ job[j].muxReached
        /\ job[j].enteredPath \in job[j].created
        /\ job[j].enteredDrift # 0
        /\ Abs(job[j].enteredDrift) <= 100
        /\ job[j].muxPath = job[j].enteredPath

\* C8: when the job has returned or thrown, none of the files it created is
\* left on disk
C8_NoIntermediateSurvives ==
    \A j \in DOMAIN job :
        job[j].pc = "done" => job[j].created \cap DOMAIN fs = {}

C9_DisjointPaths ==
    \A j1, j2 \in DOMAIN job :
        j1 # j2 => Range(job[j1].cleanupFiles) \cap Range(job[j2].cleanupFiles) = {}

\* C11: a 12.0 s track without segments and without word timings, for a 10.0 s
\* video, is handled by the simple tier alone, which stretches it gently to
\* about 10.43 s; the track that reaches mux is within 100 ms of 10.0 s
C11_GentleStretchThenTrim ==
    \A j \in DOMAIN job :
        LET r == job[j]
        IN  ( /\ r.videoDuration = 10000
              /\ r.segs = <<>>
              /\ r.wordTimings = <<>>
              /\ r.failures = {}
              /\ r.ttsWavPath \in DOMAIN fs
              /\ fs[r.ttsWavPath] = 12000
              /\ r.tierTrack \in DOMAIN fs )
                => /\ r.tierLog = <<[tier |-> "SIMPLE", outcome |-> "track"]>>
                   /\ Abs(fs[r.tierTrack] - 10430) <= 10
                   /\ (r.pc = "mux" \/ r.muxReached) => Abs(r.muxDuration - 10000) <= 100

\* segments whose first word is aligned strictly before their last word
ConfidentlyMapped(ranges) ==
    Cardinality({ k \in 1..Len(ranges) : ranges[k].ttsStartIdx < ranges[k].ttsEndIdx })

\* C12: when fewer than 80% of the transcript segments are confidently mapped,
\* alignWithIntraGaps gives no result and composes no clip
C12_AbortsBelowEightyPercent ==
    \A j \in DOMAIN job :
        LET r == job[j]
        IN  ( /\ r.pc = "intraGaps"
              /\ ConfidentlyMapped(r.segmentWordRanges) * 10 < Len(r.segs) * 8 )
                => /\ ~r.rangesUsable
                   /\ r.i = 0
                   /\ r.audioClips = <<>>

\* C13: the background mixer runs only after the drift verifier has seen the
\* voice track, and the track handed to mux is the mixed file itself
C13_MixAfterDurationCorrection ==
    \A j \in DOMAIN job :
        LET r == job[j]
        IN  /\ r.pc = "mix" => r.verifierEntered
            /\ ( /\ r.pc = "mux" \/ r.muxReached
                 /\ \E p \in r.created : p[1] = "mixed" ) => r.muxPath[1] = "mixed"

\* C14: a job that has not failed never carries forward, as its audio track, a
\* file that the primitive writing it did not produce
C14_NoContinuationWithoutOutput ==
    \A j \in DOMAIN job :
        LET r == job[j]
        IN  (r.result = "running" /\ r.finalAudioPath # NoPath)
                => r.finalAudioPath \in DOMAIN fs

\* C15: once the duration of a media file could not be determined, the job is
\* aborted
C15_ProbeFailureAborts ==
    \A j \in DOMAIN job :
        "probe" \in job[j].failures => job[j].result = "threw"

\* C16: a job that fails because the provider has no API key has started no
\* external process before failing
C16_ConfigurationErrorBeforeSubprocess ==
    \A j \in DOMAIN job :
        "config" \in job[j].failures => ~job[j].spawned

\* C17: a project row marked failed carries the message of the error that
\* ended the job, and no file the job created is left when the row is written
C17_FailedAfterCleanup ==
    \A j \in DOMAIN job :
        job[j].status = "failed"
            => /\ job[j].processingError = job[j].error
               /\ job[j].processingError # "none"
               /\ job[j].created \cap DOMAIN fs = {}

(***************************************************************************)
(* runVoiceReplacementPipeline: the external pipeline process, the         *)
(* setTimeout that bounds it, and the promise the route awaits.  The      *)
(* child's 'exit' (the process has ended) and 'close' (it has ended and   *)
(* its stdio streams are closed) are two events; only 'close' and 'error' *)
(* have handlers here.  Time is counted in units of one timer tick.       *)
(***************************************************************************)
MaxPipelineTimeout == 4

ExitCodes == {"zero", "nonzero"}

\* the state right after spawn() and setTimeout(..., timeoutMs)
NewPipeline(timeoutMs) ==
    [pc |-> "awaiting", timeoutMs |-> timeoutMs, elapsed |-> 0,
     proc |-> "running", exitCode |-> "none", killed |-> FALSE,
     timer |-> "armed", timedOut |-> FALSE,
     promise |-> "pending", reason |-> "none", status |-> "processing",
     \* history
     firedWhileRunning |-> FALSE, exitedWhileArmed |-> FALSE,
     closedWhileArmed |-> FALSE]

\* clearTimeout(timer): cancels a timer that has not fired yet
ClearTimeout(p) ==
    [p EXCEPT !.timer = IF @ = "armed" THEN "cleared" ELSE @,
              !.closedWhileArmed = @ \/ p.timer = "armed"]

\* resolve() / reject(): a promise settles once
Settle(p, outcome, reason) ==
    IF p.promise # "pending" THEN p
    ELSE [p EXCEPT !.promise = outcome, !.reason = reason]

\* proc.kill('SIGKILL'): ends a process that is still running
Kill(p) ==
    IF p.proc = "running"
    THEN [p EXCEPT !.proc = "exited", !.exitCode = "null", !.killed = TRUE]
    ELSE p

\* the setTimeout callback: timedOut = true; try { proc.kill('SIGKILL') } catch {}
TimerCallback(p) ==
    Kill([p EXCEPT !.timer = "fired", !.timedOut = TRUE,
                   !.firedWhileRunning = (p.proc = "running")])

\* proc.on('error'): clearTimeout(timer); reject(e)
OnError(p) == Settle(ClearTimeout(p), "rejected", "spawn")

\* proc.on('close'): clearTimeout(timer); code 0 resolves, anything else
\* rejects with "timed out" or "exited with code"
OnClose(p) ==
    LET q == ClearTimeout(p) IN
        IF q.exitCode = "zero" THEN Settle(q, "resolved", "none")
        ELSE Settle(q, "rejected",
                    IF q.timedOut THEN "timedOut" ELSE "exitCode")

InitPipeline ==
    /\ awTranscript = <<>>
    /\ awTts = <<>>
    /\ awResult = <<>>
    /\ awPc = "done"
    /\ job = <<>>
    /\ fs = <<>>
    /\ now = 0
    /\ pendingClose = {}
    /\ \E timeoutMs \in 1..MaxPipelineTimeout : pipeline = NewPipeline(timeoutMs)
    /\ stretch = NoStretch
    /\ route = NoRoute

notPipeline == <<awTranscript, awTts, awResult, awPc, job, fs, now,
                 pendingClose, stretch, route>>

\* wall-clock time passes while the promise is pending
PipelineTick ==
    /\ pipeline.pc = "awaiting"
    /\ pipeline.promise = "pending"
    /\ pipeline.elapsed <= pipeline.timeoutMs
    /\ pipeline' = [pipeline EXCEPT !.elapsed = @ + 1]
    /\ UNCHANGED notPipeline

\* the process ends by itself with some exit code
ProcExit ==
    /\ pipeline.pc = "awaiting"
    /\ pipeline.proc = "running"
    /\ \E code \in ExitCodes :
         pipeline' = [pipeline EXCEPT !.proc = "exited", !.exitCode = code,
                                      !.exitedWhileArmed = (pipeline.timer = "armed")]
    /\ UNCHANGED notPipeline

\* spawn fails: 'error' is emitted instead of the process running
ProcSpawnError ==
    /\ pipeline.pc = "awaiting"
    /\ pipeline.proc = "running"
    /\ pipeline.elapsed = 0
    /\ pipeline' = OnError([pipeline EXCEPT !.proc = "failed"])
    /\ UNCHANGED notPipeline

\* 'close' is delivered some time after the process has ended
ProcClose ==
    /\ pipeline.pc = "awaiting"
    /\ pipeline.proc = "exited"
    /\ pipeline' = OnClose([pipeline EXCEPT !.proc = "closed"])
    /\ UNCHANGED notPipeline

\* the timer is due and has not been cleared
TimerFires ==
    /\ pipeline.pc = "awaiting"
    /\ pipeline.timer = "armed"
    /\ pipeline.elapsed >= pipeline.timeoutMs
    /\ pipeline' = TimerCallback(pipeline)
    /\ UNCHANGED notPipeline

\* the route: the awaited call returned or threw
RouteReport ==
    /\ pipeline.pc = "awaiting"
    /\ pipeline.promise # "pending"
    /\ pipeline' = [pipeline EXCEPT
                      !.pc = "reported",
                      !.status = IF pipeline.promise = "resolved"
                                 THEN "completed" ELSE "failed"]
    /\ UNCHANGED notPipeline

NextPipeline ==
    \/ PipelineTick
    \/ ProcExit
    \/ ProcSpawnError
    \/ ProcClose
    \/ TimerFires
    \/ RouteReport

SpecPipeline == InitPipeline /\ [][NextPipeline]_vars

\* C18: if the pipeline process has not exited when the timer fires it is
\* killed, the call rejects with the timed-out reason and the job is reported
\* failed; if the process exits first, the timer never fires.
C18_ExitFirstTimerNeverFires ==
    /\ pipeline.firedWhileRunning
         => /\ pipeline.killed
            /\ pipeline.promise # "pending"
                 => pipeline.promise = "rejected" /\ pipeline.reason = "timedOut"
            /\ pipeline.pc = "reported" => pipeline.status = "failed"
    /\ pipeline.exitedWhileArmed => pipeline.timer # "fired"

\* what the handlers do guarantee: a timer that fires on a running process
\* kills it, the call rejects with the timed-out reason and the job is
\* reported failed; a timer cleared by the 'close' or 'error' handler never
\* fires, and a call reported as timed out had its timer fire.
PipelineTimeoutKills ==
    /\ pipeline.firedWhileRunning
         => /\ pipeline.killed
            /\ pipeline.promise # "pending"
                 => pipeline.promise = "rejected" /\ pipeline.reason = "timedOut"
            /\ pipeline.pc = "reported" => pipeline.status = "failed"
    /\ pipeline.closedWhileArmed
         => pipeline.timer = "cleared" /\ ~pipeline.timedOut /\ ~pipeline.killed
    /\ pipeline.reason = "timedOut" => pipeline.timer = "fired"

(***************************************************************************)
(* timeStretchAudio and timeStretchAudioGently as pure computations on a   *)
(* measured currentDuration and a targetDuration (ms).  Ratios and atempo  *)
(* stages are kept in units of 1e-4, the precision of toFixed(4); while    *)
(* the chain is built the remaining ratio is the exact fraction num / den. *)
(***************************************************************************)
StretchCurrentDurations == {400, 1040, 3000, 7000, 10050, 12000, 33001, 99999}
StretchTargetDurations == {80, 1000, 2100, 5000, 10000}

\* (num / den).toFixed(4), in units of 1e-4
ToFixed4(num, den) == (2 * num * 10000 + den) \div (2 * den)

\* the two while loops and the final push of timeStretchAudio
RECURSIVE AtempoStages(_, _, _)
AtempoStages(num, den, atempoFilters) ==
    IF num > 2 * den
    THEN AtempoStages(num, 2 * den, Append(atempoFilters, 20000))
    ELSE IF 2 * num < den
    THEN AtempoStages(2 * num, den, Append(atempoFilters, 5000))
    ELSE Append(atempoFilters, ToFixed4(num, den))

\* timeStretchAudio: no filter at all when the file is copied
TimeStretchChain(currentDuration, targetDuration) ==
    IF Abs(currentDuration - targetDuration) < 50 THEN <<>>
    ELSE AtempoStages(currentDuration, targetDuration, <<>>)

\* timeStretchAudioGently: the ratio given to atempo, 1.0 when the file is copied
GentleRatio(currentDuration, targetDuration) ==
    IF Abs(currentDuration - targetDuration) < 100 THEN 10000
    ELSE Max(8500, Min(11500, ToFixed4(currentDuration, targetDuration)))

NewStretch(currentDuration, targetDuration) ==
    [pc |-> "call", fn |-> "none",
     currentDuration |-> currentDuration, targetDuration |-> targetDuration,
     atempoFilters |-> <<>>, ratio |-> 0, achievedDuration |-> 0, written |-> 0]

InitStretch ==
    /\ awTranscript = <<>>
    /\ awTts = <<>>
    /\ awResult = <<>>
    /\ awPc = "done"
    /\ job = <<>>
    /\ fs = <<>>
    /\ now = 0
    /\ pendingClose = {}
    /\ pipeline = NoPipeline
    /\ \E c \in StretchCurrentDurations, t \in StretchTargetDurations :
         stretch = NewStretch(c, t)
    /\ route = NoRoute

notStretch == <<awTranscript, awTts, awResult, awPc, job, fs, now,
                pendingClose, pipeline, route>>

CallTimeStretch ==
    /\ stretch.pc = "call"
    /\ stretch' = [stretch EXCEPT
                     !.pc = "done", !.fn = "timeStretchAudio",
                     !.atempoFilters = TimeStretchChain(stretch.currentDuration,
                                                        stretch.targetDuration)]
    /\ UNCHANGED notStretch

CallTimeStretchGently ==
    /\ stretch.pc = "call"
    /\ LET ratio == GentleRatio(stretch.currentDuration, stretch.targetDuration) IN
         stretch' = [stretch EXCEPT
                       !.pc = "done", !.fn = "timeStretchAudioGently",
                       !.ratio = ratio,
                       !.achievedDuration = GentleAchieved(stretch.currentDuration,
                                                           stretch.targetDuration),
                       \* what atempo=ratio makes of the input
                       !.written = (2 * stretch.currentDuration * 10000 + ratio)
                                     \div (2 * ratio)]
    /\ UNCHANGED notStretch

NextStretch ==
    \/ CallTimeStretch
    \/ CallTimeStretchGently

SpecStretch == InitStretch /\ [][NextStretch]_vars

\* the product of a chain as a fraction: 2.0 and 0.5 stages exactly, any
\* other stage as stage / 10000
RECURSIVE ChainProduct(_)
ChainProduct(chain) ==
    IF Len(chain) = 0 THEN [num |-> 1, den |-> 1]
    ELSE LET rest == ChainProduct(Tail(chain)) IN
         CASE chain[1] = 20000 -> [num |-> 2 * rest.num, den |-> rest.den]
           [] chain[1] = 5000 -> [num |-> rest.num, den |-> 2 * rest.den]
           [] OTHER -> [num |-> chain[1] * rest.num, den |-> 10000 * rest.den]

\* C19: for every currentDuration / targetDuration the chain timeStretchAudio
\* builds has every stage within [0.5, 2.0] and the product of its stages is
\* within 1e-3 of the requested ratio.
C19_ChainProductEqualsRatio ==
    (stretch.pc = "done" /\ stretch.fn = "timeStretchAudio")
      => LET chain == stretch.atempoFilters
             prod == ChainProduct(chain)
         IN  /\ \A k \in 1..Len(chain) : chain[k] >= 5000 /\ chain[k] <= 20000
             /\ Abs(prod.num * stretch.targetDuration
                    - stretch.currentDuration * prod.den) * 1000
                  <= prod.den * stretch.targetDuration

StretchInBand ==
    /\ 85 * stretch.targetDuration <= 100 * stretch.currentDuration
    /\ 100 * stretch.currentDuration <= 115 * stretch.targetDuration

\* C20 (as stated): timeStretchAudioGently returns targetDuration whenever
\* currentDuration / targetDuration lies within [0.85, 1.15].
C20_InBandReturnsTarget ==
    (stretch.pc = "done" /\ stretch.fn = "timeStretchAudioGently" /\ StretchInBand)
      => stretch.achievedDuration = stretch.targetDuration

\* C20 (amended): when currentDuration is within 0.1 s of targetDuration the
\* file is copied (ratio 1) and currentDuration is returned; otherwise the
\* ratio applied is currentDuration / targetDuration clamped to [0.85, 1.15]
\* and the call returns currentDuration / clampedRatio, which is
\* targetDuration when the ratio is in the band; the file written is within
\* 10 ms of the returned value.
C20_GentleReturnsAchieved ==
    (stretch.pc = "done" /\ stretch.fn = "timeStretchAudioGently")
      => LET c == stretch.currentDuration
             t == stretch.targetDuration
             copied == Abs(c - t) < 100
         IN  /\ stretch.ratio >= 8500 /\ stretch.ratio <= 11500
             /\ copied => stretch.ratio = 10000 /\ stretch.achievedDuration = c
             /\ (~copied /\ StretchInBand)
                  => /\ stretch.achievedDuration = t
                     /\ Abs(stretch.ratio * t - 10000 * c) * 2 <= t
             /\ (~copied /\ 100 * c > 115 * t)
                  => /\ stretch.ratio = 11500
                     /\ Abs(115 * stretch.achievedDuration - 100 * c) < 115
             /\ (~copied /\ 100 * c < 85 * t)
                  => /\ stretch.ratio = 8500
                     /\ Abs(85 * stretch.achievedDuration - 100 * c) < 85
             /\ Abs(stretch.written - stretch.achievedDuration) <= 10

C20_Witness ==
    /\ stretch.pc = "done"
    /\ stretch.fn = "timeStretchAudioGently"
    /\ 100 * stretch.currentDuration > 115 * stretch.targetDuration
    /\ stretch.achievedDuration < stretch.currentDuration
    /\ stretch.achievedDuration > stretch.targetDuration

(***************************************************************************)
(* Properties of the strategies' bookkeeping (one job).                    *)
(***************************************************************************)
\* the files of the given prefix a step has written
NewlyCreated(r, r2, prefixes) == { p \in r2.created \ r.created : p[1] \in prefixes }

\* C21: every step that calls timeStretchAudioGently advances its running
\* position (or records the clip duration) by the duration of the clip it
\* appends: perSegmentSynthesisFallback and alignWithIntraGaps by the duration
\* of the file pushed to audioClips, the orchestrator by the duration of the
\* stretched track it hands to gap adjustment.
C21_AdvanceByAppendedClip ==
    [][\A j \in DOMAIN job :
         LET r == job[j]
             r2 == job'[j]
             clip == r2.audioClips[Len(r2.audioClips)]
         IN  /\ ( /\ r.pc = "perSeg"
                  /\ NewlyCreated(r, r2, {"fb_stretch"}) # {}
                  /\ Len(r2.audioClips) > Len(r.audioClips) )
                  => r2.currentTime
                       - (IF NewlyCreated(r, r2, {"fb_gap"}) # {}
                          THEN r.segs[r.i + 1].start ELSE r.currentTime)
                     = fs'[clip]
             /\ ( /\ r.pc = "intraGaps"
                  /\ NewlyCreated(r, r2, {"comp", "exp"}) # {}
                  /\ r2.i = Len(r.segmentWordRanges)
                  /\ Len(r2.audioClips) > Len(r.audioClips) )
                  => r2.currentTime
                       - (IF NewlyCreated(r, r2, {"lead"}) # {}
                          THEN r.segs[r.segmentWordRanges[r.i + 1].segIdx + 1].start
                          ELSE r.currentTime)
                     = fs'[clip]
             /\ ( /\ r.pc = "gapAdjust"
                  /\ NewlyCreated(r, r2, {"stretched_whole"}) # {} )
                  => r2.alignTtsDuration = fs'[r2.alignAudio]]_vars

(***************************************************************************)
(* Order of the segments' sub-spans: Step 3 of alignWithIntraGaps applied  *)
(* to every alignment of the aligner's specification, for every way of     *)
(* cutting the transcript into consecutive segments.                       *)
(***************************************************************************)
\* word timings for a list of synthesized words: word k spoken for 900 ms,
\* one word per second
TimingsOf(ttsWords) ==
    [k \in 1..Len(ttsWords) |->
        [word |-> ttsWords[k], start |-> 1000 * (k - 1), end |-> 1000 * (k - 1) + 900]]

\* the segments whose last words are the words numbered in cuts, and the last word
RECURSIVE SegsOf(_, _, _)
SegsOf(words, cuts, k) ==
    IF k > Len(words) THEN <<>>
    ELSE LET ends == { c \in cuts : c >= k }
             last == IF ends = {} THEN Len(words)
                     ELSE CHOOSE c \in ends : \A d \in ends : c <= d
         IN  <<[text |-> SubSeq(words, k, last)]>> \o SegsOf(words, cuts, last + 1)

RangesOf(cuts) ==
    MapRanges(SegsOf(awTranscript, cuts, 1), TimingsOf(awTts), awResult, 0, <<>>)

\* C22: the ranges mapped for the segments are in segment order and the
\* sub-spans of the synthesized audio extracted for consecutive segments
\* start at non-decreasing positions.
C22_SegmentOrderPreserved ==
    awPc = "done" =>
        \A cuts \in SUBSET (1..(Len(awTranscript) - 1)) :
            LET rs == RangesOf(cuts)
            IN  \A k \in 1..(Len(rs) - 1) :
                    /\ rs[k].segIdx < rs[k + 1].segIdx
                    /\ rs[k].ttsStart <= rs[k + 1].ttsStart

\* two consecutive segments mapped onto the same synthesized word
C22_Witness ==
    /\ awPc = "done"
    /\ \E cuts \in SUBSET (1..(Len(awTranscript) - 1)) :
         LET rs == RangesOf(cuts)
         IN  /\ Len(rs) >= 3
             /\ \E k \in 1..(Len(rs) - 1) :
                  /\ rs[k].ttsStartIdx < rs[k].ttsEndIdx
                  /\ rs[k + 1].ttsStartIdx = rs[k].ttsEndIdx
                  /\ rs[k + 1].ttsStartIdx = rs[k + 1].ttsEndIdx

\* the speech clips of a strategy carry the index of the loop iteration that
\* wrote them: along audioClips these indices never decrease
SpeechClipPrefixes == {"fb_wav", "fb_stretch", "seg", "comp", "exp", "trim", "syn_seg"}

ClipsInLoopOrder ==
    \A j \in DOMAIN job :
        LET clips == SelectSeq(job[j].audioClips, LAMBDA p : p[1] \in SpeechClipPrefixes)
        IN  \A k \in 1..(Len(clips) - 1) : clips[k][2] < clips[k + 1][2]

(***************************************************************************)
(* POST /api/video-projects/:id/process: requests for one project id.  The *)
(* handler answers at once and runs the voice replacement in an async      *)
(* function that it does not await; every run writes processed-<id>.mp4    *)
(* and then the project row.                                               *)
(***************************************************************************)
MaxRequests == 3

Requests == 1..MaxRequests

NewRoute(found, voiceProfile) ==
    [pc |-> "serving", found |-> found, voiceProfile |-> voiceProfile,
     status |-> "pending",
     response |-> [q \in Requests |-> "none"],
     run |-> [q \in Requests |-> "none"]]

InitRoute ==
    /\ awTranscript = <<>>
    /\ awTts = <<>>
    /\ awResult = <<>>
    /\ awPc = "done"
    /\ job = <<>>
    /\ fs = <<>>
    /\ now = 0
    /\ pendingClose = {}
    /\ pipeline = NoPipeline
    /\ stretch = NoStretch
    /\ \E found \in BOOLEAN, voiceProfile \in BOOLEAN :
         route = NewRoute(found, voiceProfile)

notRoute == <<awTranscript, awTts, awResult, awPc, job, fs, now,
              pendingClose, pipeline, stretch>>

\* the handler up to the start of the async function (lines 2356-2412)
PostProcess(q) ==
    /\ route.pc = "serving"
    /\ route.response[q] = "none"
    /\ route' = IF ~route.found
                THEN [route EXCEPT !.response[q] = "404"]
                ELSE IF ~route.voiceProfile
                THEN [route EXCEPT !.response[q] = "400"]
                ELSE [route EXCEPT !.status = "processing",
                                   !.response[q] = "started",
                                   !.run[q] = "preparing"]
    /\ UNCHANGED notRoute

\* the async function reaches the voice replacement, which writes
\* outputVideoPath = processed-<id>.mp4 (lines 2438-2442, 2496-2565)
PipelineWrites(q) ==
    /\ route.pc = "serving"
    /\ route.run[q] = "preparing"
    /\ route' = [route EXCEPT !.run[q] = "writing"]
    /\ UNCHANGED notRoute

\* the success path writes the project row (lines 2568-2600)
PipelineCompletes(q) ==
    /\ route.pc = "serving"
    /\ route.run[q] = "writing"
    /\ route' = [route EXCEPT !.run[q] = "completed", !.status = "completed"]
    /\ UNCHANGED notRoute

\* the catch block writes the project row (lines 2624-2645)
PipelineFails(q) ==
    /\ route.pc = "serving"
    /\ route.run[q] \in {"preparing", "writing"}
    /\ route' = [route EXCEPT !.run[q] = "failed", !.status = "failed"]
    /\ UNCHANGED notRoute

NextRoute ==
    \E q \in Requests :
       \/ PostProcess(q)
       \/ PipelineWrites(q)
       \/ PipelineCompletes(q)
       \/ PipelineFails(q)

SpecRoute == InitRoute /\ [][NextRoute]_vars

\* C23: at most one voice-replacement pipeline runs for the project at any
\* time, so no two pipelines write processed-<id>.mp4 at the same time.
C23_OnePipelinePerProject ==
    /\ Cardinality({ q \in Requests : route.run[q] \in {"preparing", "writing"} }) <= 1
    /\ Cardinality({ q \in Requests : route.run[q] = "writing" }) <= 1

\* C24: a media primitive that fails while a non-final tier is running
\* (per-segment synthesis, intra-gap alignment, synthetic gap distribution)
\* does not abort the job: no step taken inside such a tier ends in a throw.
C24_TierErrorFallsThrough ==
    [][\A j \in DOMAIN job :
         ( /\ job[j].result = "running"
           /\ job[j].pc \in {"perSeg", "intraGaps", "synthetic", "synSeg"} )
           => job'[j].result = "running"]_vars

(***************************************************************************)
(* The gap adjustment tier on its own: the job starts where the            *)
(* orchestrator falls back to it (line 497), for transcripts and word      *)
(* timings that pass the test of lines 912-922, so that                    *)
(* alignWithIntraGaps runs.                                                *)
(***************************************************************************)
\* three segments, one sentence end in the synthesized words
IntraSegs(s1, e1, s2, e2, s3, e3) ==
    << [start |-> s1, end |-> e1, text |-> <<wCatsDot>>],
       [start |-> s2, end |-> e2, text |-> <<wCat, wAt>>],
       [start |-> s3, end |-> e3, text |-> <<wHow>>] >>

IntraTimings(end1, start2, end2, start3, end3) ==
    << [word |-> wCatsDot, start |-> 0, end |-> end1],
       [word |-> wCat, start |-> start2, end |-> start2 + 400],
       [word |-> wAt, start |-> start2 + 450, end |-> end2],
       [word |-> wHow, start |-> start3, end |-> end3] >>

IntraScenarios ==
    { \* 10 ms short of the next segment, then 160 ms
      [videoDuration |-> 2500,
       segs |-> IntraSegs(0, 300, 300, 1290, 1400, 2400),
       timings |-> IntraTimings(290, 300, 1250, 1300, 2200)],
      \* speech 2.1 and 4.6 times as long as its window
      [videoDuration |-> 3200,
       segs |-> IntraSegs(0, 1000, 1150, 2000, 2150, 3000),
       timings |-> IntraTimings(2000, 2100, 5800, 5900, 6700)],
      \* speech 45 ms longer than its target, then 2.5 times as long
      [videoDuration |-> 4100,
       segs |-> IntraSegs(0, 2000, 2100, 3000, 3150, 4000),
       timings |-> IntraTimings(1945, 2000, 2850, 2900, 4900)],
      \* the second segment starts before the first one ends
      [videoDuration |-> 3100,
       segs |-> IntraSegs(0, 1000, 900, 2000, 2150, 3000),
       timings |-> IntraTimings(950, 1000, 2040, 2100, 2900)],
      \* a pause of one second between the segments
      [videoDuration |-> 5000,
       segs |-> IntraSegs(0, 1000, 2000, 3000, 3150, 4000),
       timings |-> IntraTimings(950, 1000, 1940, 2000, 2800)],
      \* speech half as long as its window
      [videoDuration |-> 3100,
       segs |-> IntraSegs(0, 1000, 1150, 2000, 2150, 3000),
       timings |-> IntraTimings(500, 600, 1400, 1500, 1900)],
      \* a first word of 60 ms, the next word 20 ms after it
      [videoDuration |-> 2300,
       segs |-> IntraSegs(0, 150, 250, 1150, 1300, 2250),
       timings |-> IntraTimings(60, 80, 980, 1000, 1900)],
      \* a window of 0.4 s for 0.42 s of speech
      [videoDuration |-> 2500,
       segs |-> IntraSegs(0, 400, 400, 1300, 1450, 2400),
       timings |-> IntraTimings(420, 430, 1280, 1300, 2200)] }

IntraEntry(sc) ==
    LET audioPath == <<"elevenlabs-ts", 0, 0, 1>>
        ttsWavPath == TempPath("tts_wav", 0, 0)
    IN  [NewJob(sc, FALSE, "asWholeTrack") EXCEPT
            !.pc = "gapAdjust", !.lastNow = 0, !.spawned = TRUE,
            !.wordTimings = sc.timings, !.totalDuration = TotalDurationOf(sc.timings),
            !.audioPath = audioPath, !.ttsWavPath = ttsWavPath,
            !.cleanupFiles = <<audioPath, ttsWavPath>>,
            !.created = {audioPath, ttsWavPath},
            !.tierLog = <<[tier |-> "PER_SEGMENT", outcome |-> "noResult"],
                          [tier |-> "GAP_ADJUSTMENT", outcome |-> "running"]>>,
            !.caller = "primary"]

InitIntra ==
    /\ awTranscript = <<>>
    /\ awTts = <<>>
    /\ awResult = <<>>
    /\ awPc = "done"
    /\ \E sc \in IntraScenarios :
         /\ UsesIntraGaps(sc.timings, sc.segs)
         /\ job = [j \in Jobs |-> IntraEntry(sc)]
         /\ fs = WriteFiles(<<>>, << <<IntraEntry(sc).audioPath, TotalDurationOf(sc.timings)>>,
                                     <<IntraEntry(sc).ttsWavPath, TotalDurationOf(sc.timings)>> >>)
    /\ now = 0
    /\ pendingClose = {}
    /\ pipeline = NoPipeline
    /\ stretch = NoStretch
    /\ route = NoRoute

NextIntra ==
    \/ \E j \in Jobs :
       \/ GapAdjustment(j)
       \/ IntraGapsIteration(j)
       \/ IntraGapsFinish(j)
    \/ Tick

SpecIntra == InitIntra /\ [][NextIntra]_vars

IntraReturned(r) == r.pc \notin {"gapAdjust", "intraGaps"}
IntraTrack(r) == IntraReturned(r) /\ r.tierTrack # NoPath

\* C25: alignWithIntraGaps returns a track only if every correction
\* |next segment's original start - cumulativeActual| it computed was at most
\* 200 ms; when one was larger it returns the no-result signal, no track of
\* this strategy is used and the per-segment fallback is entered.
C25_TrackOnlyWithinDrift ==
    \A j \in DOMAIN job :
       LET r == job[j]
           steps == r.intraSteps
           corrections == { k \in 1..Len(steps) : steps[k].hasNext }
       IN  /\ IntraTrack(r) => \A k \in corrections : Abs(steps[k].gapNeeded) <= 200
           /\ (IntraReturned(r) /\ \E k \in corrections : Abs(steps[k].gapNeeded) > 200)
                 => /\ r.tierTrack = NoPath
                    /\ r.finalAudioPath = NoPath
                    /\ r.pc = "perSeg"

\* a track was returned after two corrections, one of them above 100 ms
C25_Witness ==
    \E j \in DOMAIN job :
       LET r == job[j]
           steps == r.intraSteps
       IN  /\ IntraTrack(r)
           /\ Cardinality({ k \in 1..Len(steps) : steps[k].hasNext }) >= 2
           /\ \E k \in 1..Len(steps) :
                 steps[k].hasNext /\ Abs(steps[k].gapNeeded) > 100

\* C26 as stated: silence of exactly the difference whenever it is positive,
\* no audio when it is negative, and cumulativeActual within 10 ms of the
\* next segment's start afterwards.
C26_SilenceWheneverPositive ==
    \A j \in DOMAIN job :
       \A k \in 1..Len(job[j].intraSteps) :
          LET st == job[j].intraSteps[k]
          IN  st.hasNext =>
                /\ st.gapNeeded > 0 => st.silence = <<st.gapNeeded>>
                /\ st.gapNeeded < 0 => st.silence = <<>>
                /\ \A n \in 1..Len(st.silence) : st.silence[n] >= 0
                /\ Abs(st.targetTime - st.cumulativeActual) <= 10

\* C26: between consecutive mapped segments alignWithIntraGaps inserts silence
\* of exactly next start - cumulativeActual when that value is above 10 ms and
\* sets cumulativeActual to the next start; below -10 ms it inserts no audio
\* and sets cumulativeActual to the next start; within 10 ms either way it
\* inserts nothing and leaves cumulativeActual alone.  The silence it asks
\* for is never negative, and afterwards cumulativeActual is within 10 ms of
\* the next segment's original start.
C26_SilenceBeyondTenMs ==
    \A j \in DOMAIN job :
       \A k \in 1..Len(job[j].intraSteps) :
          LET st == job[j].intraSteps[k]
          IN  st.hasNext =>
                /\ st.gapNeeded > 10 =>
                      st.silence = <<st.gapNeeded>> /\ st.cumulativeActual = st.targetTime
                /\ st.gapNeeded < -10 =>
                      st.silence = <<>> /\ st.cumulativeActual = st.targetTime
                /\ Abs(st.gapNeeded) <= 10 =>
                      /\ st.silence = <<>>
                      /\ st.cumulativeActual = st.targetTime - st.gapNeeded
                /\ \A n \in 1..Len(st.silence) : st.silence[n] > 0
                /\ Abs(st.targetTime - st.cumulativeActual) <= 10

\* one correction of at most 10 ms and a later one that inserted silence
C26_Witness ==
    \E j \in DOMAIN job :
       LET steps == job[j].intraSteps
       IN  \E k1, k2 \in 1..Len(steps) :
              /\ steps[k1].hasNext /\ steps[k1].gapNeeded > 0 /\ steps[k1].gapNeeded <= 10
              /\ steps[k2].hasNext /\ steps[k2].silence # <<>>

C28_StretchOnlyOutOfRange ==
    [][\A j \in DOMAIN job :
         LET r == job[j]
             r2 == job'[j]
             originalSpeechDuration == r.segs[Len(r.segs)].end - r.segs[1].start
             inRange == /\ 10 * r.totalDuration >= 7 * originalSpeechDuration
                        /\ 10 * r.totalDuration <= 14 * originalSpeechDuration
             achieved == r2.alignTtsDuration
             scaled(t, t2) == t2 * r.totalDuration <= t * achieved
                              /\ t * achieved < (t2 + 1) * r.totalDuration
         IN  (r.pc = "gapAdjust" /\ r2.pc \in {"intraGaps", "simpleAlign"}) =>
                IF inRange
                THEN /\ r2.alignAudio = r.ttsWavPath
                     /\ r2.alignTtsDuration = r.totalDuration
                     /\ r2.alignTimings = r.wordTimings
                     /\ NewlyCreated(r, r2, {"stretched_whole"}) = {}
                     /\ fs' = fs
                ELSE /\ r2.alignAudio \in NewlyCreated(r, r2, {"stretched_whole"})
                     /\ fs'[r2.alignAudio] = achieved
                     /\ fs'[r.ttsWavPath] = fs[r.ttsWavPath]
                     /\ Len(r2.alignTimings) = Len(r.wordTimings)
                     /\ \A k \in 1..Len(r.wordTimings) :
                           /\ r2.alignTimings[k].word = r.wordTimings[k].word
                           /\ scaled(r.wordTimings[k].start, r2.alignTimings[k].start)
                           /\ scaled(r.wordTimings[k].end, r2.alignTimings[k].end)]_vars

\* gap adjustment has been entered on a stretched track with rescaled timings
C28_Witness ==
    \E j \in DOMAIN job :
       /\ job[j].alignAudio # NoPath
       /\ job[j].alignAudio[1] = "stretched_whole"
       /\ Len(job[j].alignTimings) > 1
       /\ job[j].alignTimings[Len(job[j].alignTimings)].end = job[j].alignTtsDuration
       /\ job[j].alignTtsDuration # job[j].totalDuration

(***************************************************************************)
(* The synthetic tier on its own: the job starts where the orchestrator    *)
(* calls alignAudioWithGapDistribution (line 572), with and without the    *)
(* preserveBackground option, and runs to the mux.                         *)
(***************************************************************************)
\* two sentences that follow each other without a pause
TimingsNoPause ==
    << [word |-> wCatsDot, start |-> 0, end |-> 900],
       [word |-> wHow, start |-> 900, end |-> 1800] >>

SyntheticScenarios ==
    { [videoDuration |-> v, segs |-> <<>>, timings |-> TimingsP] :
          v \in {2100, 1815, 1700, 1000} }
    \cup { [videoDuration |-> v, segs |-> <<>>, timings |-> TimingsNoPause] :
          v \in {2100, 1806, 1770} }

SyntheticEntry(sc, preserveBackground) ==
    LET audioPath == <<"elevenlabs-ts", 0, 0, 1>>
        ttsWavPath == TempPath("tts_wav", 0, 0)
    IN  [NewJob(sc, preserveBackground, "asWholeTrack") EXCEPT
            !.pc = "synthetic", !.lastNow = 0, !.spawned = TRUE,
            !.wordTimings = sc.timings, !.totalDuration = TotalDurationOf(sc.timings),
            !.audioPath = audioPath, !.ttsWavPath = ttsWavPath,
            !.cleanupFiles = <<audioPath, ttsWavPath>>,
            !.created = {audioPath, ttsWavPath},
            !.tierLog = <<[tier |-> "SYNTHETIC", outcome |-> "running"]>>]

InitSynthetic ==
    /\ awTranscript = <<>>
    /\ awTts = <<>>
    /\ awResult = <<>>
    /\ awPc = "done"
    /\ \E sc \in SyntheticScenarios, slack \in TtsFileSlack, preserveBackground \in BOOLEAN :
         /\ job = [j \in Jobs |-> SyntheticEntry(sc, preserveBackground)]
         /\ fs = WriteFiles(<<>>,
                   << <<SyntheticEntry(sc, FALSE).audioPath,
                        TotalDurationOf(sc.timings) + slack>>,
                      <<SyntheticEntry(sc, FALSE).ttsWavPath,
                        TotalDurationOf(sc.timings) + slack>> >>)
    /\ now = 0
    /\ pendingClose = {}
    /\ pipeline = NoPipeline
    /\ stretch = NoStretch
    /\ route = NoRoute

NextSynthetic ==
    \/ \E j \in Jobs :
       \/ SyntheticStart(j)
       \/ SyntheticIteration(j)
       \/ SyntheticFinish(j)
       \/ StretchFallback(j)
       \/ VerifyAttempt(j)
       \/ FinalCheck(j)
       \/ Mux(j)
    \/ Tick

SpecSynthetic == InitSynthetic /\ [][NextSynthetic]_vars

RECURSIVE SumPlanned(_)
SumPlanned(clips) ==
    IF Len(clips) = 0 THEN 0 ELSE clips[1].duration + SumPlanned(Tail(clips))

OfKind(clips, kinds) ==
    LET Is(c) == c.kind \in kinds IN SelectSeq(clips, Is)

\* alignAudioWithGapDistribution got as far as concatenating its clips
Concatenated(r) == \E p \in r.created : p[1] = "syn_aligned"

\* C29 as stated: for a track not longer than the video there are N+1
\* silences of (videoDuration - synthesizedDuration) / (N+1) each, and the
\* planned durations of all clips sum to videoDuration.
C29_EvenSlotsSumToVideo ==
    \A j \in DOMAIN job :
       LET r == job[j]
           N == Len(createSyntheticSegments(r.wordTimings, r.videoDuration, r.totalDuration))
           delta == r.videoDuration - TotalDurationOf(r.wordTimings)
           slots == OfKind(r.plannedClips, {"lead", "gap", "trail"})
       IN  (Concatenated(r) /\ delta >= 0) =>
              /\ Len(slots) = N + 1
              /\ \A k \in 1..Len(slots) :
                    /\ slots[k].duration * (N + 1) <= delta
                    /\ delta < (slots[k].duration + 1) * (N + 1)
              /\ SumPlanned(r.plannedClips) = r.videoDuration

\* C29: when the track is at most 50 ms longer than the video,
\* alignAudioWithGapDistribution plans one clip per synthetic segment, of the
\* segment's own span; a leading silence and one silence between each pair,
\* each of delta / (N+1), when that is above 10 ms and none of them
\* otherwise; and a trailing silence of exactly videoDuration minus
\* everything planned before it when that is above 10 ms.  The trailing
\* silence is delta / (N+1) only if the segments' spans add up to the whole
\* track.  With a trailing silence the planned durations sum to
\* videoDuration, without one they differ from it by at most 50 ms.
C29_SlotsAndRemainder ==
    \A j \in DOMAIN job :
       LET r == job[j]
           syntheticSegments ==
               createSyntheticSegments(r.wordTimings, r.videoDuration, r.totalDuration)
           N == Len(syntheticSegments)
           ttsDuration == TotalDurationOf(r.wordTimings)
           delta == r.videoDuration - ttsDuration
           segClips == OfKind(r.plannedClips, {"seg"})
           even == OfKind(r.plannedClips, {"lead", "gap"})
           trail == OfKind(r.plannedClips, {"trail"})
           before == OfKind(r.plannedClips, {"lead", "gap", "seg"})
           remainder == r.videoDuration - SumPlanned(before)
       IN  Concatenated(r) =>
              /\ delta >= -50
              /\ Len(segClips) = N
              /\ \A k \in 1..N :
                    segClips[k].duration = syntheticSegments[k].ttsEnd
                                              - syntheticSegments[k].ttsStart
              /\ Len(even) \in {0, N}
              /\ delta >= 11 * (N + 1) => Len(even) = N
              /\ delta <= 10 * (N + 1) => Len(even) = 0
              /\ \A k \in 1..Len(even) :
                    /\ even[k].duration > 10
                    /\ even[k].duration * (N + 1) <= delta
                    /\ delta < (even[k].duration + 1) * (N + 1)
              /\ Len(r.plannedClips) > 0 => r.plannedClips[1].kind = (IF Len(even) = N THEN "lead" ELSE "seg")
              /\ Len(trail) = (IF remainder > 10 THEN 1 ELSE 0)
              /\ Len(trail) = 1 =>
                    /\ trail[1].duration = remainder
                    /\ r.plannedClips[Len(r.plannedClips)].kind = "trail"
                    /\ SumPlanned(r.plannedClips) = r.videoDuration
                    /\ (Len(even) = N /\ SumPlanned(segClips) = ttsDuration)
                          => Abs(trail[1].duration - even[1].duration) <= N
              /\ Len(trail) = 0 =>
                    /\ SumPlanned(r.plannedClips) - r.videoDuration >= -10
                    /\ SumPlanned(r.plannedClips) - r.videoDuration <= 50

\* two sentences with a pause between them in the synthesized track: the
\* trailing silence is longer than the other two, and the sum is videoDuration
C29_Witness ==
    \E j \in DOMAIN job :
       LET r == job[j]
           even == OfKind(r.plannedClips, {"lead", "gap"})
           trail == OfKind(r.plannedClips, {"trail"})
       IN  /\ Concatenated(r)
           /\ Len(even) = 2
           /\ Len(trail) = 1
           /\ trail[1].duration > even[1].duration
           /\ SumPlanned(r.plannedClips) = r.videoDuration

SyntheticTracks == {"syn_aligned", "syn_stretched", "syn_trimmed"}

\* C30: a track alignAudioWithGapDistribution returns exists and is within
\* 100 ms of videoDuration; when it returns the no-result signal the
\* orchestrator goes on with the stretch fallback.
C30_ReturnedTrackWithinTolerance ==
    \A j \in DOMAIN job :
       LET r == job[j]
       IN  /\ (r.tierTrack # NoPath /\ r.tierTrack[1] \in SyntheticTracks) =>
                 /\ r.tierTrack \in DOMAIN fs
                 /\ Abs(fs[r.tierTrack] - r.videoDuration) <= DRIFT_TOLERANCE_MS
           /\ (r.tierLog[1].tier = "SYNTHETIC" /\ r.tierLog[1].outcome = "noResult") =>
                 /\ Len(r.tierLog) >= 2
                 /\ r.tierLog[2].tier = "SIMPLE"

\* what does hold: a returned track that exists is within 100 ms
SyntheticTrackWithinToleranceIfWritten ==
    \A j \in DOMAIN job :
       LET r == job[j]
       IN  (r.tierTrack \in DOMAIN fs /\ r.tierTrack[1] \in SyntheticTracks) =>
              Abs(fs[r.tierTrack] - r.videoDuration) <= DRIFT_TOLERANCE_MS

\* C38: no two entries of the alignment alignWordsWithCoverage returns share
\* a ttsIdx: the indices are strictly increasing.
C38_UniqueTtsIdx ==
    awPc = "done" =>
       \A a, b \in 1..Len(awResult) :
          a < b => awResult[a].ttsIdx < awResult[b].ttsIdx

\* what does hold: entries share an index only at the last synthesized word
DuplicatesOnlyAtLastIndex ==
    awPc = "done" =>
       \A a, b \in 1..Len(awResult) :
          (a < b /\ awResult[a].ttsIdx = awResult[b].ttsIdx)
             => awResult[a].ttsIdx = Len(awTts) - 1

\* no transcript word matches any synthesized word
NoWordMatches ==
    \A i \in 1..Len(awTranscript), j \in 1..Len(awTts) :
       \/ Len(normalizeWord(awTranscript[i])) = 0
       \/ ~WordsMatch(normalizeWord(awTts[j]), normalizeWord(awTranscript[i]))

StrideCase == awPc = "done" /\ Len(awTranscript) > 0 /\ Len(awTts) > 0 /\ NoWordMatches

\* C39 as stated: without any match entry i has synthesized index
\* i * floor(numSynthWords / numTranscriptWords), capped at the last index,
\* and is marked interpolated.
C39_StrideFloorStep ==
    StrideCase =>
       /\ Len(awResult) = Len(awTranscript)
       /\ \A k \in 1..Len(awResult) :
             /\ awResult[k].transcriptIdx = k - 1
             /\ awResult[k].ttsIdx =
                   Min((k - 1) * (Len(awTts) \div Len(awTranscript)), Len(awTts) - 1)
             /\ awResult[k].interpolated

\* C39: without any match entry i has synthesized index
\* i * max(1, floor(numSynthWords / numTranscriptWords)), capped at the last
\* index, and is marked interpolated.
C39_StrideAtLeastOne ==
    StrideCase =>
       /\ Len(awResult) = Len(awTranscript)
       /\ \A k \in 1..Len(awResult) :
             /\ awResult[k].transcriptIdx = k - 1
             /\ awResult[k].ttsIdx =
                   Min((k - 1) * Max(1, Len(awTts) \div Len(awTranscript)),
                       Len(awTts) - 1)
             /\ awResult[k].interpolated

\* four transcript words on three synthesized ones, none matching: 0, 1, 2, 2
C39_Witness ==
    /\ StrideCase
    /\ Len(awTranscript) = 4
    /\ Len(awTts) = 3
    /\ awResult[2].ttsIdx = 1
    /\ awResult[4].ttsIdx = 2

\* video durations createSyntheticSegments is called with for the
\* synthesized words of the aligner's inputs
SegmentVideoDurations == {2000, 2900, 4350}

SyntheticOf(videoDuration) ==
    createSyntheticSegments(TimingsOf(awTts), videoDuration,
                            TotalDurationOf(TimingsOf(awTts)))

\* C40: for a non-empty word-timing list the synthetic segments are
\* consecutive non-empty index ranges covering every word once; a range ends
\* at each word ending in '.', '!' or '?' and at the last word; ttsStart and
\* ttsEnd are the first word's start and the last word's end, and start and
\* end are these times multiplied by videoDuration / synthesizedDuration.
C40_SegmentsPartitionWords ==
    (awPc = "done" /\ Len(awTts) > 0) =>
       \A v \in SegmentVideoDurations :
          LET wt == TimingsOf(awTts)
              ttsDuration == TotalDurationOf(wt)
              segs == SyntheticOf(v)
              scaled(t, target) == /\ target * ttsDuration <= t * v
                                   /\ t * v < (target + 1) * ttsDuration
          IN  /\ Len(segs) >= 1
              /\ segs[1].wordIndices.start = 0
              /\ segs[Len(segs)].wordIndices.end = Len(wt) - 1
              /\ \A k \in 1..Len(segs) :
                    /\ segs[k].wordIndices.start <= segs[k].wordIndices.end
                    /\ k < Len(segs) =>
                          segs[k + 1].wordIndices.start = segs[k].wordIndices.end + 1
                    /\ segs[k].ttsStart = wt[segs[k].wordIndices.start + 1].start
                    /\ segs[k].ttsEnd = wt[segs[k].wordIndices.end + 1].end
                    /\ scaled(segs[k].ttsStart, segs[k].start)
                    /\ scaled(segs[k].ttsEnd, segs[k].end)
              /\ { segs[k].wordIndices.end : k \in 1..Len(segs) }
                    = { i \in 0..(Len(wt) - 1) :
                           IsSentenceEnd(wt[i + 1].word) \/ i = Len(wt) - 1 }

\* three words, the second one ends a sentence: segments of words 0-1 and 2
C40_Witness ==
    /\ awPc = "done"
    /\ Len(awTts) = 3
    /\ Len(SyntheticOf(4350)) = 2
    /\ SyntheticOf(4350)[1].wordIndices = [start |-> 0, end |-> 1]
    /\ SyntheticOf(4350)[2].start = 3000
    /\ SyntheticOf(4350)[2].end = 4350

\* C36: the spans of synthesized audio alignWithIntraGaps extracts for
\* consecutive mapped segments do not overlap: each starts at or after the
\* end of the one before.
C36_ExtractedSpansDisjoint ==
    \A j \in DOMAIN job :
       LET steps == job[j].intraSteps
       IN  \A k \in 1..(Len(steps) - 1) :
              steps[k + 1].ttsStart >= steps[k].ttsStart + steps[k].extracted

\* what does hold: the mapped ranges themselves do not overlap
MappedRangesDisjoint ==
    \A j \in DOMAIN job :
       LET ranges == job[j].segmentWordRanges
       IN  \A k \in 1..(Len(ranges) - 1) :
              /\ ranges[k].ttsStart <= ranges[k].ttsEnd
              /\ ranges[k + 1].ttsStart >= ranges[k].ttsEnd

\* C37: after a segment is placed cumulativeActual is at most the segment's
\* original end whenever at least 0.2 s was available before it was placed.
C37_PlacedInsideWindow ==
    \A j \in DOMAIN job :
       \A k \in 1..Len(job[j].intraSteps) :
          LET st == job[j].intraSteps[k]
          IN  st.available >= 200 => st.placedEnd <= st.origEnd

\* what does hold: a placed segment ends at most 50 ms after its window, and
\* inside it when a second or more was available
PlacedWithinFiftyMs ==
    \A j \in DOMAIN job :
       \A k \in 1..Len(job[j].intraSteps) :
          LET st == job[j].intraSteps[k]
          IN  /\ st.available >= 200 => st.placedEnd <= st.origEnd + 50
              /\ st.available >= 1000 => st.placedEnd <= st.origEnd

(***************************************************************************)
(* The primary tier on its own: the job starts where the orchestrator      *)
(* calls perSegmentSynthesisFallback (line 486).                           *)
(***************************************************************************)
OneSegmentTimings == << [word |-> wCatsDot, start |-> 0, end |-> 900] >>

PerSegmentScenarios ==
    { \* one segment with silence before and after it
      [videoDuration |-> 2000,
       segs |-> << [start |-> 500, end |-> 1500, text |-> <<wCatsDot>>] >>,
       timings |-> OneSegmentTimings],
      \* one segment that fills the video
      [videoDuration |-> 1000,
       segs |-> << [start |-> 0, end |-> 1000, text |-> <<wCatsDot>>] >>,
       timings |-> OneSegmentTimings],
      [videoDuration |-> 2100, segs |-> SegsP, timings |-> TimingsP] }

PerSegmentEntry(sc, fbVoice) ==
    LET audioPath == <<"elevenlabs-ts", 0, 0, 1>>
        ttsWavPath == TempPath("tts_wav", 0, 0)
    IN  EnterPerSegment(
           [NewJob(sc, FALSE, fbVoice) EXCEPT
               !.lastNow = 0, !.spawned = TRUE,
               !.wordTimings = sc.timings, !.totalDuration = TotalDurationOf(sc.timings),
               !.audioPath = audioPath, !.ttsWavPath = ttsWavPath,
               !.cleanupFiles = <<audioPath, ttsWavPath>>,
               !.created = {audioPath, ttsWavPath},
               !.tierLog = <<[tier |-> "PER_SEGMENT", outcome |-> "running"]>>],
           "primary")

InitPerSegment ==
    /\ awTranscript = <<>>
    /\ awTts = <<>>
    /\ awResult = <<>>
    /\ awPc = "done"
    /\ \E sc \in PerSegmentScenarios, fbVoice \in FbVoices :
         /\ job = [j \in Jobs |-> PerSegmentEntry(sc, fbVoice)]
         /\ fs = WriteFiles(<<>>,
                  << <<PerSegmentEntry(sc, fbVoice).audioPath, TotalDurationOf(sc.timings)>>,
                     <<PerSegmentEntry(sc, fbVoice).ttsWavPath, TotalDurationOf(sc.timings)>> >>)
    /\ now = 0
    /\ pendingClose = {}
    /\ pipeline = NoPipeline
    /\ stretch = NoStretch
    /\ route = NoRoute

NextPerSegment ==
    \/ \E j \in Jobs :
       \/ PerSegmentIteration(j)
       \/ PerSegmentFinish(j)
    \/ Tick

SpecPerSegment == InitPerSegment /\ [][NextPerSegment]_vars

SpeechClips(r) ==
    { k \in 1..Len(r.audioClips) : r.audioClips[k][1] \in {"fb_wav", "fb_stretch"} }

\* C35: perSegmentSynthesisFallback returns a track only if the speech of at
\* least one segment was synthesized and appended; when synthesis failed for
\* every segment the tier ends with the no-result signal.
C35_TrackHasSpeech ==
    \A j \in DOMAIN job :
       LET r == job[j]
       IN  /\ (r.tierTrack # NoPath /\ r.tierTrack[1] = "fb_aligned") =>
                 SpeechClips(r) # {}
           /\ (r.pc # "perSeg" /\ r.result = "running" /\ SpeechClips(r) = {}) =>
                 r.tierLog[1].outcome = "noResult"

\* calls of mixVoiceWithBackground: each is preceded by the push of its output path
MixerCalls(r) ==
    Cardinality({ k \in 1..Len(r.cleanupFiles) : r.cleanupFiles[k][1] = "mixed" })

\* C34: with preserveBackground the background mixer has run exactly once
\* when mux is reached, with or without transcript segments; without the
\* option it never runs.
C34_MixOnceWhenAsked ==
    \A j \in DOMAIN job :
       LET r == job[j]
       IN  /\ (r.muxReached /\ r.preserveBackground) => MixerCalls(r) = 1
           /\ ~r.preserveBackground => MixerCalls(r) = 0

\* what does hold: with transcript segments the mixer has run exactly once
\* before mux, and it never runs more than once or without the option
MixOnceWithSegments ==
    \A j \in DOMAIN job :
       LET r == job[j]
       IN  /\ (r.muxReached /\ r.preserveBackground /\ Len(r.segs) > 0) => MixerCalls(r) = 1
           /\ MixerCalls(r) <= 1
           /\ ~r.preserveBackground => MixerCalls(r) = 0

(***************************************************************************)
(* One run of the async function that POST /api/video-projects/:id/process *)
(* starts after it has answered (lines 2410-2657).  The handler has set    *)
(* status = 'processing', processing_progress = 0 (lines 2381-2385) and    *)
(* loaded projectWithMeta (lines 2388-2393).  route holds the project row, *)
(* the values the function closes over and its position.                   *)
(***************************************************************************)
\* metadata.processingHistory of the row when the handler loads it
PriorHistories == { <<>>, <<"completed">> }

\* what transcriptionService.transcribeVideo comes back with
TranscribeOutcomes == {"text", "empty", "error"}

NewRun(isElevenLabs, templateUrl, profile, transcriptText, configured, promptPath, prior) ==
    [pc |-> "starting",
     isElevenLabs |-> isElevenLabs, templateUrl |-> templateUrl,
     profile |-> profile, transcriptText |-> transcriptText,
     configured |-> configured, promptPath |-> promptPath,
     projectWithMeta |-> prior,
     status |-> "processing", processing_progress |-> 0,
     output_video_url |-> FALSE, processing_error |-> FALSE,
     processingHistory |-> prior,
     recorded |-> <<>>,        \* stages setProjectProgress has persisted in this run
     written |-> <<0>>,        \* every processing_progress written in this run
     terminalWrites |-> 0,     \* writes of status 'completed' or 'failed'
     faults |-> 0]

InitRun ==
    /\ awTranscript = <<>>
    /\ awTts = <<>>
    /\ awResult = <<>>
    /\ awPc = "done"
    /\ job = <<>>
    /\ fs = <<>>
    /\ now = 0
    /\ pendingClose = {}
    /\ pipeline = NoPipeline
    /\ stretch = NoStretch
    /\ \E isElevenLabs \in BOOLEAN, templateUrl \in BOOLEAN, profile \in BOOLEAN,
          transcriptText \in BOOLEAN, configured \in BOOLEAN,
          promptPath \in BOOLEAN, prior \in PriorHistories :
         route = NewRun(isElevenLabs, templateUrl, profile, transcriptText,
                        configured, promptPath, prior)

\* a statement on the database succeeds, or rejects while faults are left
DbOutcomes(r) == IF r.faults < MaxFaults THEN BOOLEAN ELSE {TRUE}

\* lines 48-72: read the row's metadata, push the stage, write progress and
\* metadata back; an error is logged and swallowed
setProjectProgress(r, progress, stage, ok) ==
    IF ok
    THEN [r EXCEPT !.processing_progress = progress,
                   !.processingHistory = Append(@, stage),
                   !.recorded = Append(@, stage),
                   !.written = Append(@, progress)]
    ELSE [r EXCEPT !.faults = @ + 1]

\* lines 2411-2426: 'starting', then the template url and the voice profile
RunStart ==
    /\ route.pc = "starting"
    /\ \E ok \in DbOutcomes(route) :
         LET r == setProjectProgress(route, 5, "starting", ok)
         IN  route' = [r EXCEPT !.pc = IF r.templateUrl /\ r.profile
                                       THEN "transcript" ELSE "catch"]
    /\ UNCHANGED notRoute

\* lines 2450-2507: the transcript of the source video or the template;
\* with neither, an ElevenLabs run has the video transcribed
FindTranscript ==
    /\ route.pc = "transcript"
    /\ IF ~route.transcriptText /\ route.isElevenLabs
       THEN \E ok \in DbOutcomes(route), outcome \in TranscribeOutcomes :
              LET r == setProjectProgress(route, 10, "transcribing", ok)
              IN  route' = IF ~r.configured \/ outcome = "error"
                           THEN [r EXCEPT !.pc = "catch"]
                           ELSE [r EXCEPT !.pc = "ready",
                                          !.transcriptText = (outcome = "text")]
       ELSE route' = [route EXCEPT !.pc = "ready"]
    /\ UNCHANGED notRoute

\* lines 2509-2520: a transcript with segments is persisted to a file, which
\* may throw; 'transcript_ready' when there is a text, then 'pipeline_spawn'
TranscriptReady ==
    /\ route.pc = "ready"
    /\ \E persisted \in BOOLEAN, ok1 \in DbOutcomes(route) :
         LET r1 == IF route.transcriptText
                   THEN setProjectProgress(route, 20, "transcript_ready", ok1)
                   ELSE route
         IN  IF route.transcriptText /\ ~persisted
             THEN route' = [route EXCEPT !.pc = "catch"]
             ELSE \E ok2 \in DbOutcomes(r1) :
                    route' = [setProjectProgress(r1, 25, "pipeline_spawn", ok2)
                                EXCEPT !.pc = "branch"]
    /\ UNCHANGED notRoute

\* lines 2522-2531: the ElevenLabs branch up to the call of the replacement
ElevenLabsBranch ==
    /\ route.pc = "branch"
    /\ route.isElevenLabs
    /\ IF ~route.transcriptText
       THEN route' = [route EXCEPT !.pc = "catch"]
       ELSE \E ok \in DbOutcomes(route) :
              route' = [setProjectProgress(route, 30, "tts_synthesis", ok)
                          EXCEPT !.pc = "replace"]
    /\ UNCHANGED notRoute

\* lines 2536-2563: the local branch up to the call of the pipeline; without
\* a text the video is transcribed here, and a failure of that is only logged
LocalBranch ==
    /\ route.pc = "branch"
    /\ ~route.isElevenLabs
    /\ \E ok1 \in DbOutcomes(route), outcome \in TranscribeOutcomes :
         LET transcribes == ~route.transcriptText /\ route.configured
             r1 == IF transcribes
                   THEN setProjectProgress(route, 10, "transcribing", ok1)
                   ELSE route
         IN  \E ok2 \in DbOutcomes(r1) :
               LET r2 == IF transcribes /\ outcome # "error"
                         THEN [setProjectProgress(r1, 20, "transcript_ready", ok2)
                                 EXCEPT !.transcriptText = (outcome = "text")]
                         ELSE r1
               IN  route' = [r2 EXCEPT !.pc = IF r2.promptPath
                                                THEN "replace" ELSE "catch"]
    /\ UNCHANGED notRoute

\* lines 2532-2535, 2565: runElevenLabsVoiceReplacement or
\* runVoiceReplacementPipeline returns or throws
VoiceReplacement ==
    /\ route.pc = "replace"
    /\ \E returns \in BOOLEAN :
         route' = [route EXCEPT !.pc = IF returns THEN "complete" ELSE "catch"]
    /\ UNCHANGED notRoute

\* lines 2568-2606: the metadata written is the one of projectWithMeta, loaded
\* before the run, with 'completed' pushed; a rejected write goes to the catch
CompletionWrite ==
    /\ route.pc = "complete"
    /\ \E ok \in DbOutcomes(route) :
         route' = IF ok
                  THEN [route EXCEPT
                          !.pc = "done", !.status = "completed",
                          !.processing_progress = 100,
                          !.output_video_url = TRUE,
                          !.processingHistory = Append(route.projectWithMeta, "completed"),
                          !.written = Append(@, 100),
                          !.terminalWrites = @ + 1]
                  ELSE [route EXCEPT !.pc = "catch", !.faults = @ + 1]
    /\ UNCHANGED notRoute

\* lines 2624-2647: the catch block's write is awaited outside any try, so
\* its rejection rejects the async function, which nothing awaits
FailureWrite ==
    /\ route.pc = "catch"
    /\ \E ok \in DbOutcomes(route) :
         route' = IF ok
                  THEN [route EXCEPT
                          !.pc = "done", !.status = "failed",
                          !.processing_progress = 100,
                          !.processing_error = TRUE,
                          !.written = Append(@, 100),
                          !.terminalWrites = @ + 1]
                  ELSE [route EXCEPT !.pc = "rejected", !.faults = @ + 1]
    /\ UNCHANGED notRoute

NextRun ==
    \/ RunStart
    \/ FindTranscript
    \/ TranscriptReady
    \/ ElevenLabsBranch
    \/ LocalBranch
    \/ VoiceReplacement
    \/ CompletionWrite
    \/ FailureWrite

SpecRun == InitRun /\ [][NextRun]_vars

\* every awaited call returns or throws, and the event loop then resumes the
\* async function: a step that is possible is eventually taken
SpecRunFair == SpecRun /\ WF_vars(NextRun)

\* C31: every run eventually writes exactly one terminal status, 'completed'
\* or 'failed', and the project does not stay in 'processing' forever.
C31_EventuallyOneTerminalStatus ==
    <>[](route.terminalWrites = 1 /\ route.status \in {"completed", "failed"})

\* what does hold: the async function always ends, with at most one terminal
\* write; it ends without one only when the write of the catch block rejects
RunEnds == <>(route.pc \in {"done", "rejected"})

OneTerminalUnlessFailureWriteRejects ==
    /\ route.terminalWrites <= 1
    /\ route.pc = "done" =>
         /\ route.terminalWrites = 1
         /\ route.processing_progress = 100
         /\ \/ route.status = "completed" /\ route.output_video_url
            \/ route.status = "failed" /\ route.processing_error
    /\ route.pc = "rejected" =>
         /\ route.terminalWrites = 0
         /\ route.status = "processing"
         /\ route.faults > 0

\* r ends with the sequence tail
EndsWith(r, tail) ==
    /\ Len(r) >= Len(tail)
    /\ SubSeq(r, Len(r) - Len(tail) + 1, Len(r)) = tail

\* C32: after a successful run the persisted processingHistory holds every
\* milestone that setProjectProgress recorded during the run, in order,
\* followed by the 'completed' entry.
C32_CompletionKeepsMilestones ==
    route.status = "completed" =>
        EndsWith(route.processingHistory, Append(route.recorded, "completed"))

\* what does hold: the completed row carries the history the handler loaded
\* before the run, followed by 'completed'
CompletionKeepsLoadedHistory ==
    route.status = "completed" =>
        route.processingHistory = Append(route.projectWithMeta, "completed")

NonDecreasing(s) == \A k \in 1..(Len(s) - 1) : s[k] <= s[k + 1]

\* C33: within one run the percentages written (0 at the start, each
\* milestone, 100 at the end) never decrease, on the ElevenLabs path and on
\* the local path.
C33_ProgressNeverDecreases == NonDecreasing(route.written)

\* what does hold: the percentages never decrease on the ElevenLabs path, nor
\* on the local path when the transcription service is not configured
ProgressNeverDecreasesWithoutLateTranscription ==
    (route.isElevenLabs \/ ~route.configured) => NonDecreasing(route.written)
====
